---------------------------- MODULE Spec2Model ----------------------------
(***************************************************************************)
(* Context retrieval of DOCUMIND-AI: the Context Retriever                 *)
(* (retrieve_context), the Page-Scoped Extractor it delegates to, and the  *)
(* Similarity Index both of them query.                                    *)
(*                                                                         *)
(* The retrieval code is documind-backend/qa/index_loader.py, present as   *)
(* compiled CPython 3.13 code after the last line of TSX in                *)
(* documind-frontend/App.tsx: extract_documents_by_page (the Page-Scoped   *)
(* Extractor) and retrieve_context (the Context Retriever).  The retrieval *)
(* definitions below follow its instructions, names and constants.         *)
(*                                                                         *)
(* The second half of the module models the client screen of              *)
(* documind-frontend/App.tsx: its React state, its refs, the closures of   *)
(* the last render, and its asynchronous handlers, one step per await.     *)
(*                                                                         *)
(* Strings are modelled as sequences of word tokens; a number inside a     *)
(* string is the token "1", "2", ... and is parsed by ToInt.               *)
(***************************************************************************)
EXTENDS Integers, Sequences, FiniteSets, Bags, TLC

VARIABLES
    index,      \* the Similarity Index: its chunks, best match first
    pc,         \* position of the running call ("idle" when none runs)
    question,   \* argument: the question, a sequence of word tokens
    k,          \* argument: the result cap
    source,     \* argument: the source filter (NoSource when not supplied)
    argPage,    \* argument: the page as supplied by the caller (NoPage when not)
    page,       \* the local `page`: supplied, or detected from the question
    queries,    \* fan-out queries still to run
    acc,        \* the accumulator of retrieved chunks
    ext,        \* the frame of the running Page-Scoped Extractor
    result,     \* the returned sequence
    outcome,    \* "none" while running, "returned", or "raised"
    calls,      \* Index.search calls issued by the running call, in order
    raisedIn,   \* the steps of the running call in which Index.search raised
    surfaced,   \* whether some search of the running call returned a chunk
    oracle,     \* how Index.search behaves: "any", or one deterministic way
    other,      \* the frame of a second, concurrent call while it is not running
    turn,       \* which of the two callers the frame variables belong to
    interleaved, \* whether the running call has been suspended while the other ran
    first,      \* the arguments and the result of the first call that returned
    ui,         \* the screen's React state (useState values)
    refs,       \* the screen's refs (useRef values)
    view,       \* the state values of the last render, closed over by handlers
    tasks,      \* asynchronous handler invocations waiting at an await (a bag)
    life,       \* "new" before the mount effects, then "mounted", "unmounted"
    obs         \* observations: late state updates, effect runs, retries

vars == <<index, pc, question, k, source, argPage, page, queries, acc, ext,
          result, outcome, calls, raisedIn, surfaced, oracle, other, turn,
          interleaved, first, ui, refs, view, tasks, life, obs>>

\* the variables of one retrieval call: its arguments, locals and position
frame == <<pc, question, k, source, argPage, page, queries, acc, ext,
           result, outcome, calls, raisedIn, surfaced>>

\* the variables of the client screen
screen == <<ui, refs, view, tasks, life, obs>>

\* what all calls share, and the bookkeeping of the two-call specifications
shared == <<index, oracle, other, turn, interleaved, first>>

---------------------------------------------------------------------------
(* Bounds of the model *)

MaxIndex == 2
MaxK == 3
MaxMinResults == 2
MaxAcc == 4

---------------------------------------------------------------------------
(* Data model: chunks as Document(page_content, metadata) *)

NoSource == <<>>
NoPage == 0

Chunk(i, c, s, p) == [id |-> i, content |-> c, source |-> s, page |-> p]

XPdf == <<"x", "pdf">>
YDocx == <<"y", "docx">>

\* The chunks an index is drawn from: the two chunks of the spec's example
\* (Alpha on page 1 and Beta on page 2 of x.pdf), a second chunk with Beta's
\* text on the same page, Alpha's text on page 2 of another document, a
\* chunk whose metadata has neither source nor page, and a third text on
\* page 2 of x.pdf.
Corpus ==
    { Chunk(1, "Alpha", XPdf, 1),
      Chunk(2, "Beta", XPdf, 2),
      Chunk(3, "Beta", XPdf, 2),
      Chunk(4, "Alpha", YDocx, 2),
      Chunk(5, "Gamma", NoSource, NoPage),
      Chunk(6, "Delta", XPdf, 2) }

\* the one string the top-level handler of retrieve_context returns
Sentinel ==
    Chunk(0, "Error retrieving document context. Please check your query and try again.",
          NoSource, NoPage)

Min(a, b) == IF a <= b THEN a ELSE b

Range(s) == { s[i] : i \in DOMAIN s }

Contents(s) == { s[i].content : i \in DOMAIN s }

Take(s, n) == SubSeq(s, 1, Min(n, Len(s)))

RECURSIVE SeqsOver(_, _)
\* the sequences over S of length at most n
SeqsOver(S, n) ==
    IF n = 0 THEN { <<>> }
    ELSE LET shorter == SeqsOver(S, n - 1)
         IN  shorter \cup { Append(s, x) : s \in shorter, x \in S }

ChunkOf(i) == CHOOSE c \in Corpus : c.id = i

\* The two-chunk indexes, best match first: the example in both rank orders,
\* two chunks of one page with the same text and with different texts, and a
\* chunk of another document, or of none, ranked above a chunk of x.pdf.
RankedPairs ==
    { <<1, 2>>, <<2, 1>>, <<2, 3>>, <<2, 6>>, <<4, 2>>, <<5, 6>> }

\* the longer indexes: the example followed by a third text of its page 2
RankedLonger == { <<1, 2, 6>> }

\* the indexes: empty, every one-chunk index, and the ranked ones above
Indexes ==
    { s \in SeqsOver(Corpus, MaxIndex) :
        \/ Len(s) <= 1
        \/ [i \in 1..Len(s) |-> s[i].id] \in RankedPairs \cup RankedLonger }


---------------------------------------------------------------------------
(* Text helpers *)

Digits == { "1", "2" }

\* int(): the number a digit token denotes
ToInt(t) == CASE t = "1" -> 1 [] t = "2" -> 2 [] OTHER -> NoPage

\* str(): the token that denotes a page number
ToStr(n) == CASE n = 1 -> "1" [] n = 2 -> "2" [] OTHER -> "0"

\* str.lower() on one word
Lower(t) == CASE t = "Page" -> "page" [] t = "PAGE" -> "page" [] OTHER -> t

\* {source-without-extension}: the name with its last component dropped
BaseName(s) == IF Len(s) > 1 THEN SubSeq(s, 1, Len(s) - 1) ELSE s

---------------------------------------------------------------------------
(* Implicit page detection (retrieve_context, before the content queries) *)

\* the words p(?:aa|a|g)ge, the looser pattern, accepts for "page"
LooseSpellings == { "paage", "page", "pgge" }

\* "page" in question.lower()
MentionsPage(q) == \E i \in DOMAIN q : Lower(q[i]) = "page"

\* the number captured by `word [number] N` starting at token i, or NoPage
CaptureAt(q, i, words) ==
    IF Lower(q[i]) \notin words THEN NoPage
    ELSE IF i + 1 <= Len(q) /\ q[i + 1] \in Digits THEN ToInt(q[i + 1])
    ELSE IF i + 2 <= Len(q) /\ Lower(q[i + 1]) = "number" /\ q[i + 2] \in Digits
         THEN ToInt(q[i + 2])
    ELSE NoPage

\* re.search: the capture of the leftmost match of the pattern, or NoPage
SearchPattern(q, words) ==
    LET hits == { i \in DOMAIN q : CaptureAt(q, i, words) # NoPage }
    IN  IF hits = {} THEN NoPage
        ELSE CaptureAt(q, CHOOSE i \in hits : \A j \in hits : i <= j, words)

\* variant: the loose pattern is tried before the strict one
DetectPage_LooseFirst(q) ==
    LET loose == SearchPattern(q, LooseSpellings)
    IN  IF ~MentionsPage(q) THEN NoPage
        ELSE IF loose # NoPage THEN loose ELSE SearchPattern(q, { "page" })

\* detection runs only on a question that contains "page": the strict
\* pattern first, the loose one only when the strict one found nothing
DetectPage(q) ==
    LET strict == SearchPattern(q, { "page" })
    IN  IF ~MentionsPage(q) THEN NoPage
        ELSE IF strict # NoPage THEN strict ELSE SearchPattern(q, LooseSpellings)

\* page_number after the page detection
EffectivePage(q, p) == IF p # NoPage THEN p ELSE DetectPage(q)

---------------------------------------------------------------------------
(* Filters and the deduplicating merge *)

BySource(s, src) == SelectSeq(s, LAMBDA c : c.source = src)

\* variant: the requested page is stamped on every chunk instead of filtering
ByPage_Stamp(s, p) == [i \in 1..Len(s) |-> [s[i] EXCEPT !.page = p]]

ByPage(s, p) == SelectSeq(s, LAMBDA c : c.page = p)

Matches(c, src, p) == c.source = src /\ c.page = p

\* variant: a strategy's results are filtered by source only
ByBoth_SourceOnly(s, src, p) == BySource(s, src)

\* d.metadata.get("source") == source and d.metadata.get("page_number") == page_number
ByBoth(s, src, p) == SelectSeq(s, LAMBDA c : Matches(c, src, p))

\* Document equality: the same text and the same metadata
SameDocument(c, d) ==
    c.content = d.content /\ c.source = d.source /\ c.page = d.page

RECURSIVE AppendAbsent(_, _)
\* for doc in incoming: if doc not in existing: existing.append(doc)
AppendAbsent(existing, incoming) ==
    IF incoming = <<>> THEN existing
    ELSE LET c == Head(incoming)
         IN  AppendAbsent(IF \E i \in DOMAIN existing : SameDocument(existing[i], c)
                          THEN existing
                          ELSE Append(existing, c),
                          Tail(incoming))

RECURSIVE MergeNew(_, _)
\* the seen/unique_docs loop: existing, then each incoming chunk whose
\* content is not yet present
MergeNew(existing, incoming) ==
    IF incoming = <<>> THEN existing
    ELSE LET c == Head(incoming)
         IN  MergeNew(IF c.content \in Contents(existing) THEN existing
                      ELSE Append(existing, c),
                      Tail(incoming))

\* variant: the deduplicated accumulator is returned without the cap
DedupCap_NoCap(s, n) == MergeNew(<<>>, s)

\* variant: the accumulator is capped without being deduplicated
DedupCap_NoDedup(s, n) == Take(s, n)

\* variant: the accumulator is capped first and deduplicated afterwards
DedupCap_CapFirst(s, n) == MergeNew(<<>>, Take(s, n))

\* unique_docs[:k]: first occurrence of each content, first-seen order, at most n
DedupCap(s, n) == Take(MergeNew(<<>>, s), n)

---------------------------------------------------------------------------
(* The Similarity Index (index.similarity_search) *)

Query(text, kk) == [text |-> text, k |-> kk]

\* index.similarity_search(query, k=kk): an ordered sequence of chunks, best
\* match first, of length at most k.  The embedding ranking is opaque to the
\* caller: `index` is kept in rank order and a search returns its m best
\* chunks for some m <= min(k, n) (a result shorter than min(k, n) stands
\* for the chunks that a larger index would rank out of the first k).
\* With a deterministic search (oracle other than "any") every search
\* gives the same answer for the same query: the min(k, n) best chunks
\* ("exact"), the one best chunk ("best"), or an error ("down").  The
\* oracle "absent" is the caller that passes no index object (None): every
\* attribute access on it raises.
SearchResults(kk) ==
    CASE oracle = "any" -> { SubSeq(index, 1, m) : m \in 0..Min(kk, Len(index)) }
      [] oracle = "exact" -> { Take(index, kk) }
      [] oracle = "best" -> { Take(index, Min(kk, 1)) }
      [] OTHER -> {}

\* whether index.similarity_search can raise
SearchMayRaise == oracle \in { "any", "down", "absent" }

\* not index
IndexFalsy == oracle = "absent"

\* the log after index.similarity_search(q...) is evaluated: on an index that
\* is None the attribute lookup raises and no search is issued
Issued(log, q) == IF IndexFalsy THEN log ELSE Append(log, q)

---------------------------------------------------------------------------
(* Page-Scoped Extractor (extract_documents_by_page) *)

DefaultMinResults == 5
CascadeLength == 5
FinalScanK == 500

\* retrieval_strategies: the five searches, in order
Strategy(i, src, p) ==
    CASE i = 1 -> Query(<<"content", "from", "page", ToStr(p), "of">> \o BaseName(src), 30)
      [] i = 2 -> Query(<<"page", ToStr(p)>>, 30)
      [] i = 3 -> Query(<<"document">> \o BaseName(src), 50)
      [] i = 4 -> Query(BaseName(src), 50)
      [] OTHER -> Query(<<" ">>, 100)

\* os.path.splitext(source) raises on a source that is None: the strategies
\* that name the document fail before they search
StrategyRaises(i, src) == src = NoSource /\ i \in { 1, 3, 4 }

\* the direct document scan
FinalScan == Query(<<" ">>, FinalScanK)

\* all_docs.extend(filtered_docs): the matches of a strategy, repeats included
ExtAccumulate(results, found, src, p) == results \o ByBoth(found, src, p)

\* the direct scan appends the matching documents that all_docs does not hold
ExtScanAccumulate(results, found, src, p) ==
    AppendAbsent(results, ByBoth(found, src, p))

\* variant: all_docs is returned as it is
ExtOutput_NoDedup(e) == e.results

\* unique_docs: the first occurrence of each page_content of all_docs
ExtOutput(e) == MergeNew(<<>>, e.results)

NoExt ==
    [src |-> NoSource, page |-> NoPage, min |-> 0, strat |-> 0,
     results |-> <<>>, ret |-> "none"]

\* the extractor's frame on entry; a falsy index returns [] at once
ExtStart(src, p, m, ret) ==
    [src |-> src, page |-> p, min |-> m,
     strat |-> IF IndexFalsy THEN CascadeLength + 2 ELSE 1,
     results |-> <<>>, ret |-> ret]

\* variant: the cascade never stops early
CascadeContinues_NoEarlyExit(e) == e.strat <= CascadeLength

\* the loop runs the next strategy unless len(all_docs) >= min_results broke it
CascadeContinues(e) == e.strat <= CascadeLength /\ Len(e.results) < e.min

\* variant: a failing search ends the extractor with what it has
ExtOnError_Abort(e) == [e EXCEPT !.strat = CascadeLength + 2]

\* variant: the failed strategy is tried again
ExtOnError_Retry(e) == e

\* except Exception: the error is printed and the next step follows
ExtOnError(e) == [e EXCEPT !.strat = @ + 1]

\* if len(all_docs) < min_results, after the loop
FinalScanDue(e) == e.strat = CascadeLength + 1 /\ Len(e.results) < e.min

---------------------------------------------------------------------------
(* Context Retriever (retrieve_context) *)

FanoutK == 10
SourceKeepThreshold == 3
SourceFallbackK == 30

GenericSummary == <<"document", "content", "summary", "information", "details">>
GenericFields == <<"important", "fields", "values", "data", "information">>

\* if source and page_number is not None
FastPathApplies(src, p) == src # NoSource /\ p # NoPage

\* where a call goes on entry: the fast-path test is the first statement
EntryStep(q, src, p) ==
    IF FastPathApplies(src, p) THEN "ext" ELSE "detect"

\* variant: the last k results are returned
FastPathResult_Tail(results, kk) ==
    SubSeq(results, Len(results) - Min(kk, Len(results)) + 1, Len(results))

\* page_docs[:k]
FastPathResult(results, kk) == Take(results, kk)

\* content_queries: the question, two fixed queries, one for the source and
\* two for the page
FanoutQueries(q, src, p) ==
    << Query(q, FanoutK),
       Query(GenericSummary, FanoutK),
       Query(GenericFields, FanoutK) >>
    \o (IF src # NoSource
        THEN << Query(BaseName(src) \o <<"content", "details">>, FanoutK) >>
        ELSE <<>>)
    \o (IF p # NoPage
        THEN << Query(<<"page", ToStr(p), "content", "information">>, FanoutK),
                Query(<<"content", "on", "page", ToStr(p)>>, FanoutK) >>
        ELSE <<>>)

\* variant: the threshold is 3 whatever k is
SourceSetSuffices_Fixed(a, src, kk) ==
    Len(BySource(a, src)) >= SourceKeepThreshold

\* len(source_filtered) >= min(k, 3)
SourceSetSuffices(a, src, kk) ==
    Len(BySource(a, src)) >= Min(kk, SourceKeepThreshold)

SourceFallbackQuery(src) == Query(<<"document">> \o BaseName(src), SourceFallbackK)

\* all_docs.extend(source_filtered) in the fallback branch
SourceMerge(a, found, src) == a \o BySource(found, src)

\* variant: the extractor's results replace the accumulator
PageMerge_Replace(a, extracted) == extracted

\* all_docs.extend(page_docs)
PageMerge(a, extracted) == a \o extracted

\* variant: the handler returns nothing
ErrorResult_Empty == <<>>

\* the top-level handler's return value
ErrorResult == << Sentinel >>

\* the top-level handler returns; it does not raise
ErrorOutcome == "returned"

---------------------------------------------------------------------------
(* Inputs *)

Questions ==
    { <<>>,
      <<"what">>,
      <<"on", "Page", "1">>,
      <<"paage", "1", "page", "number", "2">>,
      <<"page", "pgge", "2">>,
      <<"paage", "2">> }

Sources == { NoSource, XPdf }

Pages == { NoPage, 2 }

Ks == 0..MaxK

---------------------------------------------------------------------------
(* The client screen as constructed (App.tsx, DOCUMIND_APP).  A text is a   *)
(* sequence of characters or words.  The null of source is the empty text   *)
(* and the null of page is 0: setSource(data.source || null) and            *)
(* setPage(data.page || null) never store an empty text or 0.               *)

NullSource == <<>>
NullPage == 0

\* the useState initial values that the handlers read or write
InitialState ==
    [question |-> <<>>, answer |-> <<>>, source |-> NullSource,
     page |-> NullPage, loading |-> FALSE, serverStatus |-> "unknown",
     documents |-> <<>>, availableModels |-> <<>>, currentModel |-> <<>>,
     isDocumentModalVisible |-> FALSE, isModelModalVisible |-> FALSE,
     processingTime |-> 0]

\* hasFetchedRef, hasCheckedServerRef, isMountedRef
\* timerIntervalRef is the fourth ref of src/unnamed/part_000; 0 stands for
\* null.  App.tsx has no such ref and its handlers leave the field alone.
InitialRefs ==
    [hasFetchedRef |-> FALSE, hasCheckedServerRef |-> FALSE, isMountedRef |-> TRUE,
     timerIntervalRef |-> 0]

\* what a render closes over and shows: the state values of that render
\* which a handler or the condition of a button reads
Rendered(st) ==
    [question |-> st.question, loading |-> st.loading,
     serverStatus |-> st.serverStatus, documents |-> st.documents,
     availableModels |-> st.availableModels,
     isDocumentModalVisible |-> st.isDocumentModalVisible,
     isModelModalVisible |-> st.isModelModalVisible]

\* what has happened so far: the handlers that called a setter after the
\* unmount, the checks started by the mount effect, the Retry presses, and,
\* since hasFetchedRef was last reset, the times the [serverStatus] effect
\* started the two fetches and whether it has declined to; the presses of
\* a model, the calls of handleSubmit, those that passed the blank check,
\* those that have ended, the presses of Upload and of the refresh button,
\* the taps on a document
\* and the document tapped last
NoObs == [late |-> {}, mountChecks |-> 0, retries |-> 0, effectFetches |-> 0,
          skipped |-> FALSE, selects |-> 0, calls |-> 0, submits |-> 0,
          done |-> 0, uploads |-> 0, refreshes |-> 0, taps |-> 0,
          tapped |-> <<>>]

ScreenConstructed ==
    /\ ui = InitialState
    /\ refs = InitialRefs
    /\ view = Rendered(InitialState)
    /\ tasks = EmptyBag
    /\ life = "new"
    /\ obs = NoObs

---------------------------------------------------------------------------
(* State machine *)

\* the frame of a caller that has no call running
NoFrame ==
    [pc |-> "idle", question |-> <<>>, k |-> 1, source |-> NoSource,
     argPage |-> NoPage, page |-> NoPage, queries |-> <<>>, acc |-> <<>>,
     ext |-> NoExt, result |-> <<>>, outcome |-> "none", calls |-> <<>>,
     raisedIn |-> {}, surfaced |-> FALSE]

NoFirst == [set |-> FALSE, args |-> <<>>, result |-> <<>>]

\* no call is running
Idle ==
    /\ pc = "idle"
    /\ question = <<>>
    /\ k = 1
    /\ source = NoSource
    /\ argPage = NoPage
    /\ page = NoPage
    /\ queries = <<>>
    /\ acc = <<>>
    /\ ext = NoExt
    /\ result = <<>>
    /\ outcome = "none"
    /\ calls = <<>>
    /\ raisedIn = {}
    /\ surfaced = FALSE

Init ==
    /\ index \in Indexes
    /\ Idle
    /\ oracle \in { "any", "absent" }
    /\ oracle = "absent" => index = <<>>
    /\ other = NoFrame
    /\ turn = "A"
    /\ interleaved = FALSE
    /\ first = NoFirst
    /\ ScreenConstructed

\* retrieve_context(index, question, k, source, page_number): entry and the
\* fast-path decision
Call(q, kk, src, p) ==
    /\ pc = "idle"
    /\ question' = q
    /\ k' = kk
    /\ source' = src
    /\ argPage' = p
    /\ page' = p
    /\ pc' = EntryStep(q, src, p)
    /\ outcome' = "none"
    /\ ext' = IF pc' = "ext" THEN ExtStart(src, p, DefaultMinResults, "fast")
              ELSE NoExt
    /\ UNCHANGED <<shared, screen>>
    /\ UNCHANGED <<queries, acc, result, calls, raisedIn, surfaced>>

\* the Page-Scoped Extractor called on its own
CallExtract(src, p, m) ==
    /\ pc = "idle"
    /\ pc' = "ext"
    /\ ext' = ExtStart(src, p, m, "direct")
    /\ UNCHANGED <<shared, screen>>
    /\ UNCHANGED <<question, k, source, argPage, page, queries, acc,
                   result, outcome, calls, raisedIn, surfaced>>

\* one strategy of the cascade: search, filter, extend; an error is swallowed
ExtStrategy ==
    /\ pc = "ext"
    /\ CascadeContinues(ext)
    /\ IF StrategyRaises(ext.strat, ext.src)
       THEN /\ ext' = ExtOnError(ext)
            /\ UNCHANGED <<calls, raisedIn, surfaced>>
       ELSE /\ calls' = Issued(calls, Strategy(ext.strat, ext.src, ext.page))
            /\ \/ \E found \in SearchResults(Strategy(ext.strat, ext.src, ext.page).k) :
                    /\ ext' = [ext EXCEPT
                                 !.results = ExtAccumulate(@, found, ext.src, ext.page),
                                 !.strat = @ + 1]
                    /\ surfaced' = (surfaced \/ found # <<>>)
                    /\ UNCHANGED raisedIn
               \/ /\ SearchMayRaise
                  /\ ext' = ExtOnError(ext)
                  /\ raisedIn' = raisedIn \cup { ext.ret }
                  /\ UNCHANGED surfaced
    /\ UNCHANGED <<shared, screen>>
    /\ UNCHANGED <<pc, question, k, source, argPage, page, queries, acc,
                   result, outcome>>

\* break: the cascade stops once len(all_docs) >= min_results
ExtBreak ==
    /\ pc = "ext"
    /\ ext.strat <= CascadeLength
    /\ ~CascadeContinues(ext)
    /\ ext' = [ext EXCEPT !.strat = CascadeLength + 1]
    /\ UNCHANGED <<shared, screen>>
    /\ UNCHANGED <<pc, question, k, source, argPage, page, queries, acc,
                   result, outcome, calls, raisedIn, surfaced>>

\* the direct document scan; an error is swallowed
ExtFinalScan ==
    /\ pc = "ext"
    /\ FinalScanDue(ext)
    /\ calls' = Issued(calls, FinalScan)
    /\ \/ \E found \in SearchResults(FinalScan.k) :
            /\ ext' = [ext EXCEPT
                         !.results = ExtScanAccumulate(@, found, ext.src, ext.page),
                         !.strat = @ + 1]
            /\ surfaced' = (surfaced \/ found # <<>>)
            /\ UNCHANGED raisedIn
       \/ /\ SearchMayRaise
          /\ ext' = ExtOnError(ext)
          /\ raisedIn' = raisedIn \cup { ext.ret }
          /\ UNCHANGED surfaced
    /\ UNCHANGED <<shared, screen>>
    /\ UNCHANGED <<pc, question, k, source, argPage, page, queries, acc,
                   result, outcome>>

\* the extractor deduplicates by content and returns to its caller: the
\* fast path, page narrowing or the direct caller
ExtReturn ==
    /\ pc = "ext"
    /\ ext.strat > CascadeLength
    /\ ~FinalScanDue(ext)
    /\ CASE ext.ret = "fast" ->
              IF ExtOutput(ext) # <<>>
              THEN /\ pc' = "done"
                   /\ result' = FastPathResult(ExtOutput(ext), k)
                   /\ outcome' = "returned"
                   /\ UNCHANGED <<acc, ext>>
              ELSE /\ pc' = "detect"
                   /\ ext' = NoExt
                   /\ UNCHANGED <<result, outcome, acc>>
         [] ext.ret = "page" ->
              /\ pc' = "dedup"
              /\ acc' = PageMerge(acc, ExtOutput(ext))
              /\ UNCHANGED <<result, outcome, ext>>
         [] OTHER ->
              /\ pc' = "extdone"
              /\ result' = ExtOutput(ext)
              /\ outcome' = "returned"
              /\ UNCHANGED <<acc, ext>>
    /\ UNCHANGED <<shared, screen>>
    /\ UNCHANGED <<question, k, source, argPage, page, queries,
                   calls, raisedIn, surfaced>>

\* page detection and the construction of content_queries
Detect ==
    /\ pc = "detect"
    /\ page' = EffectivePage(question, page)
    /\ queries' = FanoutQueries(question, source, page')
    /\ pc' = "fanout"
    /\ UNCHANGED <<shared, screen>>
    /\ UNCHANGED <<question, k, source, argPage, acc, ext, result,
                   outcome, calls, raisedIn, surfaced>>

\* the top-level handler: the sentinel is returned, the error is not raised
Fail(step) ==
    /\ pc' = "done"
    /\ result' = ErrorResult
    /\ outcome' = ErrorOutcome
    /\ raisedIn' = raisedIn \cup { step }

\* one query of content_queries, k = 10; no try of its own
FanoutSearch ==
    /\ pc = "fanout"
    /\ queries # <<>>
    /\ calls' = Issued(calls, Head(queries))
    /\ \/ \E found \in SearchResults(Head(queries).k) :
            /\ acc' = acc \o found
            /\ queries' = Tail(queries)
            /\ surfaced' = (surfaced \/ found # <<>>)
            /\ UNCHANGED <<pc, result, outcome, raisedIn>>
       \/ /\ SearchMayRaise
          /\ Fail("fanout")
          /\ UNCHANGED <<acc, queries, surfaced>>
    /\ UNCHANGED <<shared, screen>>
    /\ UNCHANGED <<question, k, source, argPage, page, ext>>

\* source narrowing: keep the filtered set or go to the fallback query
SourceNarrow ==
    /\ pc = "fanout"
    /\ queries = <<>>
    /\ IF source = NoSource
       THEN /\ pc' = "page"
            /\ UNCHANGED acc
       ELSE IF SourceSetSuffices(acc, source, k)
       THEN /\ pc' = "page"
            /\ acc' = BySource(acc, source)
       ELSE /\ pc' = "srcfb"
            /\ UNCHANGED acc
    /\ UNCHANGED <<shared, screen>>
    /\ UNCHANGED <<question, k, source, argPage, page, queries, ext,
                   result, outcome, calls, raisedIn, surfaced>>

\* the additional source query, in a try of its own: a raising search is
\* printed and the call goes on to page narrowing
SourceFallback ==
    /\ pc = "srcfb"
    /\ calls' = Issued(calls, SourceFallbackQuery(source))
    /\ \/ \E found \in SearchResults(SourceFallbackQuery(source).k) :
            /\ acc' = SourceMerge(acc, found, source)
            /\ pc' = "page"
            /\ surfaced' = (surfaced \/ found # <<>>)
            /\ UNCHANGED <<result, outcome, raisedIn>>
       \/ /\ SearchMayRaise
          /\ pc' = "page"
          /\ raisedIn' = raisedIn \cup { "source" }
          /\ UNCHANGED <<result, outcome, acc, surfaced>>
    /\ UNCHANGED <<shared, screen>>
    /\ UNCHANGED <<question, k, source, argPage, page, queries, ext>>

\* page narrowing: replace the accumulator or call the extractor
PageNarrow ==
    /\ pc = "page"
    /\ IF page = NoPage
       THEN /\ pc' = "dedup"
            /\ UNCHANGED <<acc, ext>>
       ELSE IF ByPage(acc, page) # <<>>
       THEN /\ pc' = "dedup"
            /\ acc' = ByPage(acc, page)
            /\ UNCHANGED ext
       ELSE /\ pc' = "ext"
            /\ ext' = ExtStart(source, page, DefaultMinResults, "page")
            /\ UNCHANGED acc
    /\ UNCHANGED <<shared, screen>>
    /\ UNCHANGED <<question, k, source, argPage, page, queries, result,
                   outcome, calls, raisedIn, surfaced>>

\* the seen/unique_docs loop and unique_docs[:k]
Dedup ==
    /\ pc = "dedup"
    /\ result' = DedupCap(acc, k)
    /\ outcome' = "returned"
    /\ pc' = "done"
    /\ UNCHANGED <<shared, screen>>
    /\ UNCHANGED <<question, k, source, argPage, page, queries, acc, ext,
                   calls, raisedIn, surfaced>>

\* variant: the accumulator is a module-level list that outlives the call
AfterReturn_Kept(a) == a

\* what is left of a call's accumulator once the call has returned
AfterReturn(a) == <<>>

\* the call's frame is gone: nothing of the call is retained
ReleaseFrame ==
    /\ pc \in { "done", "extdone" }
    /\ pc' = "idle"
    /\ question' = <<>>
    /\ k' = 1
    /\ source' = NoSource
    /\ argPage' = NoPage
    /\ page' = NoPage
    /\ queries' = <<>>
    /\ acc' = AfterReturn(acc)
    /\ ext' = NoExt
    /\ result' = <<>>
    /\ outcome' = "none"
    /\ calls' = <<>>
    /\ raisedIn' = {}
    /\ surfaced' = FALSE

\* the caller takes the result
Return ==
    /\ ReleaseFrame
    /\ UNCHANGED <<shared, screen>>

Next ==
    \/ \E q \in Questions, kk \in Ks, src \in Sources, p \in Pages :
         Call(q, kk, src, p)
    \/ \E src \in Sources, p \in { 1, 2 }, m \in 1..MaxMinResults :
         CallExtract(src, p, m)
    \/ ExtStrategy
    \/ ExtBreak
    \/ ExtFinalScan
    \/ ExtReturn
    \/ Detect
    \/ FanoutSearch
    \/ SourceNarrow
    \/ SourceFallback
    \/ PageNarrow
    \/ Dedup
    \/ Return

Spec == Init /\ [][Next]_vars

(***************************************************************************)
(* Repeated calls.  Index.search is deterministic, calls follow one        *)
(* another, and the first call that returns is remembered with its         *)
(* arguments so that a later call with the same arguments can be compared. *)
(***************************************************************************)
DetOracles == { "exact", "best", "down" }

RepeatQuestions == Questions \ { <<>> }
RepeatKs == { 1, MaxK }

Args == <<question, k, source, argPage>>

InitDet ==
    /\ index \in Indexes
    /\ Idle
    /\ oracle \in DetOracles
    /\ other = NoFrame
    /\ turn = "A"
    /\ interleaved = FALSE
    /\ first = NoFirst
    /\ ScreenConstructed

\* the caller takes the result; the first result is remembered
ReturnRecorded ==
    /\ pc = "done"
    /\ turn = "A"
    /\ ReleaseFrame
    /\ first' = IF first.set THEN first
                ELSE [set |-> TRUE, args |-> Args, result |-> result]
    /\ UNCHANGED <<index, oracle, other, turn, interleaved, screen>>

\* the steps of a running retrieve_context call
CallStep ==
    \/ ExtStrategy
    \/ ExtBreak
    \/ ExtFinalScan
    \/ ExtReturn
    \/ Detect
    \/ FanoutSearch
    \/ SourceNarrow
    \/ SourceFallback
    \/ PageNarrow
    \/ Dedup

NextRepeat ==
    \/ \E q \in RepeatQuestions, kk \in RepeatKs, src \in Sources, p \in Pages :
         Call(q, kk, src, p)
    \/ CallStep
    \/ ReturnRecorded

SpecRepeat == InitDet /\ [][NextRepeat]_vars

(***************************************************************************)
(* Concurrent calls.  Two callers, A and B, each run retrieve_context on   *)
(* the same index; the frame variables hold the call of the caller whose   *)
(* turn it is and `other' holds the suspended one.  A switch can happen    *)
(* between any two steps.  Caller A repeats one call; caller B runs        *)
(* different calls in the background.                                      *)
(***************************************************************************)
ConcurrentOracles == { "exact", "down" }
ConcurrentQuestions == { <<"what">>, <<"on", "Page", "1">> }
BackgroundQuestions == { <<"what">> }
BackgroundKs == { MaxK }
BackgroundSources == { XPdf }

CurrentFrame ==
    [pc |-> pc, question |-> question, k |-> k, source |-> source,
     argPage |-> argPage, page |-> page, queries |-> queries, acc |-> acc,
     ext |-> ext, result |-> result, outcome |-> outcome, calls |-> calls,
     raisedIn |-> raisedIn, surfaced |-> surfaced]

InFlight(f) == f.pc \notin { "idle", "done" }

\* variant: one accumulator, kept on the retriever object, serves every call
ResumedAcc_Shared(mine, theirs) == mine

\* the accumulator a resumed call sees: its own, as it left it
ResumedAcc(mine, theirs) == theirs

\* the running call is suspended and the other caller's call is resumed
Switch ==
    /\ other' = CurrentFrame
    /\ turn' = IF turn = "A" THEN "B" ELSE "A"
    /\ pc' = other.pc
    /\ question' = other.question
    /\ k' = other.k
    /\ source' = other.source
    /\ argPage' = other.argPage
    /\ page' = other.page
    /\ queries' = other.queries
    /\ acc' = ResumedAcc(acc, other.acc)
    /\ ext' = other.ext
    /\ result' = other.result
    /\ outcome' = other.outcome
    /\ calls' = other.calls
    /\ raisedIn' = other.raisedIn
    /\ surfaced' = other.surfaced
    /\ interleaved' = (interleaved \/ (InFlight(CurrentFrame) /\ InFlight(other)))
    /\ UNCHANGED <<index, oracle, first, screen>>

\* caller A: the same call again and again
CallA(q, kk, src, p) ==
    /\ turn = "A"
    /\ first.set => <<q, kk, src, p>> = first.args
    /\ Call(q, kk, src, p)

\* caller A takes the result; the first result of a call that ran alone,
\* never suspended while the other call was in flight, is remembered
ReturnA ==
    /\ pc = "done"
    /\ turn = "A"
    /\ ReleaseFrame
    /\ first' = IF first.set \/ interleaved THEN first
                ELSE [set |-> TRUE, args |-> Args, result |-> result]
    /\ interleaved' = FALSE
    /\ UNCHANGED <<index, oracle, other, turn, screen>>

CallB(q, kk, src, p) ==
    /\ turn = "B"
    /\ Call(q, kk, src, p)

ReturnB ==
    /\ turn = "B"
    /\ Return

NextConcurrent ==
    \/ \E q \in ConcurrentQuestions, kk \in RepeatKs, src \in Sources, p \in Pages :
         CallA(q, kk, src, p)
    \/ \E q \in BackgroundQuestions, kk \in BackgroundKs,
          src \in BackgroundSources, p \in Pages :
         CallB(q, kk, src, p)
    \/ CallStep
    \/ Switch
    \/ ReturnA
    \/ ReturnB

InitConcurrent ==
    /\ InitDet
    /\ oracle \in ConcurrentOracles

SpecConcurrent == InitConcurrent /\ [][NextConcurrent]_vars

(***************************************************************************)
(* Step 6 on its own.  The call has reached deduplicate-and-cap with an    *)
(* accumulator that is any sequence of at most MaxAcc chunks of an index   *)
(* holding the whole corpus.                                               *)
(***************************************************************************)
FullIndex == [i \in 1..Cardinality(Corpus) |-> CHOOSE c \in Corpus : c.id = i]

Accumulators == SeqsOver(Corpus, MaxAcc)

InitDedup ==
    /\ index = FullIndex
    /\ pc = "dedup"
    /\ question = <<"what">>
    /\ k \in Ks
    /\ source = NoSource
    /\ argPage = NoPage
    /\ page = NoPage
    /\ queries = <<>>
    /\ acc \in Accumulators
    /\ ext = NoExt
    /\ result = <<>>
    /\ outcome = "none"
    /\ calls = <<>>
    /\ raisedIn = {}
    /\ surfaced = (acc # <<>>)
    /\ oracle = "any"
    /\ other = NoFrame
    /\ turn = "A"
    /\ interleaved = FALSE
    /\ first = NoFirst
    /\ ScreenConstructed

NextDedup ==
    \/ Dedup
    \/ Return

SpecDedup == InitDedup /\ [][NextDedup]_vars

---------------------------------------------------------------------------
(* The client screen (App.tsx).  `ui' is the React state, `refs' its      *)
(* refs, `view' the state values of the last render, which the handlers of *)
(* that render close over.  A handler runs up to its first await in the    *)
(* step that calls it; each later await is a task of the bag `tasks' that   *)
(* resumes in a step of its own.  A state setter called after the           *)
(* component was unmounted changes nothing and is recorded in obs.late.     *)

MaxRetries == 3
MaxSelects == 1

Unmounted == life = "unmounted"

Task(fn, at) == [fn |-> fn, at |-> at, n |-> 0]
Start(t, bag) == bag (+) SetToBag({t})
Finish(t, bag) == bag (-) SetToBag({t})
Pending(fn, at) == CopiesIn(Task(fn, at), tasks)

NoUpdate == <<>>
Updated(st, upd) ==
    [f \in DOMAIN st |-> IF f \in DOMAIN upd THEN upd[f] ELSE st[f]]

\* the state setters of `upd' called by handler fn; o is obs with this
\* step's counters
SetState(fn, upd, o) ==
    /\ ui' = IF Unmounted THEN ui ELSE Updated(ui, upd)
    /\ obs' = IF Unmounted /\ DOMAIN upd # {}
              THEN [o EXCEPT !.late = @ \cup {fn}]
              ELSE o

\* `if (isMountedRef.current) set...'
IfMounted(upd) == IF refs.isMountedRef THEN upd ELSE NoUpdate

\* what the server may answer
ModelName == <<"gemma">>
DocName == <<"a.pdf">>
FetchOutcomes == { "ok", "notok", "reject" }
\* a body that does not parse has no fields to read
StatusBodies ==
    { [parsed |-> FALSE, current_model |-> <<>>] }
    \cup { [parsed |-> TRUE, current_model |-> m] : m \in { <<>>, ModelName } }
ModelBodies ==
    { [parsed |-> FALSE, available_models |-> <<>>, current_model |-> <<>>] }
    \cup { [parsed |-> TRUE, available_models |-> a, current_model |-> m] :
             a \in { <<>>, <<ModelName>> }, m \in { <<>>, ModelName } }
DocumentBodies ==
    { [parsed |-> FALSE, documents |-> <<>>] }
    \cup { [parsed |-> TRUE, documents |-> d] : d \in { <<>>, <<DocName>> } }

\* the last render shows no modal, so the main screen can be touched
MainScreen == ~view.isDocumentModalVisible /\ ~view.isModelModalVisible

\* checkServerConnection up to its first await, called from a render whose
\* serverStatus is st while isMountedRef.current is m: TRUE when it sets
\* 'checking' and issues the request
CheckStarts(st, m) == st # "checking" /\ m

Mount ==
    /\ life = "new"
    /\ life' = "mounted"
    /\ refs' = [refs EXCEPT !.isMountedRef = TRUE, !.hasCheckedServerRef = TRUE]
    /\ LET go == ~refs.hasCheckedServerRef /\ CheckStarts(view.serverStatus, TRUE)
       IN /\ SetState("checkServerConnection",
                      IF go THEN "serverStatus" :> "checking" ELSE NoUpdate,
                      [obs EXCEPT !.mountChecks = @ + (IF go THEN 1 ELSE 0)])
          /\ tasks' = IF go THEN Start(Task("checkServerConnection", "fetch"), tasks)
                      ELSE tasks
    /\ UNCHANGED <<view, frame, shared>>

Unmount ==
    /\ life = "mounted"
    /\ life' = "unmounted"
    /\ refs' = [refs EXCEPT !.isMountedRef = FALSE]
    /\ UNCHANGED <<ui, view, tasks, obs, frame, shared>>

\* the effect of [serverStatus] runs after a render whose serverStatus
\* differs from the one of the render before
EffectRuns(prev, st) == prev.serverStatus # st.serverStatus

EffectFetches_NoRef(prev, st) ==
    /\ EffectRuns(prev, st)
    /\ st.serverStatus = "connected"
    /\ refs.isMountedRef

EffectFetches(prev, st) ==
    /\ EffectRuns(prev, st)
    /\ st.serverStatus = "connected"
    /\ ~refs.hasFetchedRef
    /\ refs.isMountedRef

Render ==
    /\ life = "mounted"
    /\ view # Rendered(ui)
    /\ view' = Rendered(ui)
    /\ IF EffectFetches(view, ui)
       THEN /\ refs' = [refs EXCEPT !.hasFetchedRef = TRUE]
            /\ tasks' = Start(Task("fetchModels", "fetch"),
                              Start(Task("fetchDocuments", "fetch"), tasks))
            /\ obs' = [obs EXCEPT !.effectFetches = @ + 1]
       ELSE /\ obs' = IF EffectRuns(view, ui) /\ ui.serverStatus = "connected"
                      THEN [obs EXCEPT !.skipped = TRUE] ELSE obs
            /\ UNCHANGED <<refs, tasks>>
    /\ UNCHANGED <<ui, life, frame, shared>>

handleRetryConnection ==
    /\ life = "mounted"
    /\ MainScreen
    /\ view.serverStatus = "error"
    /\ obs.retries < MaxRetries
    /\ refs' = [refs EXCEPT !.hasCheckedServerRef = FALSE, !.hasFetchedRef = FALSE]
    /\ LET go == CheckStarts(view.serverStatus, refs.isMountedRef)
       IN /\ SetState("checkServerConnection",
                      IF go THEN "serverStatus" :> "checking" ELSE NoUpdate,
                      [obs EXCEPT !.retries = @ + 1, !.effectFetches = 0,
                                  !.skipped = FALSE])
          /\ tasks' = IF go THEN Start(Task("checkServerConnection", "fetch"), tasks)
                      ELSE tasks
    /\ UNCHANGED <<view, life, frame, shared>>

\* the catch block of checkServerConnection
CheckFailed_Silent == NoUpdate

CheckFailed == IfMounted("serverStatus" :> "error")

\* the fetch of checkServerConnection settles; the 5000 ms abort is a reject
checkServerConnection_fetch(r) ==
    LET t == Task("checkServerConnection", "fetch") IN
    /\ BagIn(t, tasks)
    /\ CASE r = "reject" ->
              /\ tasks' = Finish(t, tasks)
              /\ SetState(t.fn, CheckFailed, obs)
         [] r # "reject" /\ ~refs.isMountedRef ->
              /\ tasks' = Finish(t, tasks)
              /\ UNCHANGED <<ui, obs>>
         [] r = "ok" /\ refs.isMountedRef ->
              /\ tasks' = Start(Task(t.fn, "json"), Finish(t, tasks))
              /\ UNCHANGED <<ui, obs>>
         [] r = "notok" /\ refs.isMountedRef ->
              /\ tasks' = Finish(t, tasks)
              /\ SetState(t.fn, "serverStatus" :> "error", obs)
    /\ UNCHANGED <<refs, view, life, frame, shared>>

checkServerConnection_json(d) ==
    LET t == Task("checkServerConnection", "json") IN
    /\ BagIn(t, tasks)
    /\ tasks' = Finish(t, tasks)
    /\ IF d.parsed
       THEN SetState(t.fn,
                     IF d.current_model # <<>>
                     THEN "serverStatus" :> "connected" @@ "currentModel" :> d.current_model
                     ELSE "serverStatus" :> "connected", obs)
       ELSE SetState(t.fn, CheckFailed, obs)
    /\ UNCHANGED <<refs, view, life, frame, shared>>

fetchDocuments_fetch(r) ==
    LET t == Task("fetchDocuments", "fetch") IN
    /\ BagIn(t, tasks)
    /\ tasks' = IF r = "ok" /\ refs.isMountedRef
                THEN Start(Task(t.fn, "json"), Finish(t, tasks))
                ELSE Finish(t, tasks)
    /\ UNCHANGED <<ui, refs, view, life, obs, frame, shared>>

fetchDocuments_json(d) ==
    LET t == Task("fetchDocuments", "json") IN
    /\ BagIn(t, tasks)
    /\ tasks' = Finish(t, tasks)
    /\ SetState(t.fn, IF d.parsed THEN "documents" :> d.documents ELSE NoUpdate, obs)
    /\ UNCHANGED <<refs, view, life, frame, shared>>

fetchModels_fetch(r) ==
    LET t == Task("fetchModels", "fetch") IN
    /\ BagIn(t, tasks)
    /\ tasks' = IF r = "ok" /\ refs.isMountedRef
                THEN Start(Task(t.fn, "json"), Finish(t, tasks))
                ELSE Finish(t, tasks)
    /\ UNCHANGED <<ui, refs, view, life, obs, frame, shared>>

fetchModels_json(d) ==
    LET t == Task("fetchModels", "json") IN
    /\ BagIn(t, tasks)
    /\ tasks' = Finish(t, tasks)
    /\ SetState(t.fn,
                IF ~d.parsed THEN NoUpdate
                ELSE IF d.current_model # <<>>
                THEN "availableModels" :> d.available_models
                     @@ "currentModel" :> d.current_model
                ELSE "availableModels" :> d.available_models, obs)
    /\ UNCHANGED <<refs, view, life, frame, shared>>

openModels ==
    /\ life = "mounted"
    /\ MainScreen
    /\ SetState("openModels", "isModelModalVisible" :> TRUE, obs)
    /\ UNCHANGED <<refs, view, tasks, life, frame, shared>>

\* the Close button of the model modal, and its onRequestClose
closeModels ==
    /\ life = "mounted"
    /\ view.isModelModalVisible
    /\ SetState("closeModels", "isModelModalVisible" :> FALSE, obs)
    /\ UNCHANGED <<refs, view, tasks, life, frame, shared>>

selectModel ==
    /\ life = "mounted"
    /\ view.isModelModalVisible
    /\ view.availableModels # <<>>
    /\ obs.selects < MaxSelects
    /\ tasks' = Start(Task("selectModel", "fetch"), tasks)
    /\ obs' = [obs EXCEPT !.selects = @ + 1]
    /\ UNCHANGED <<ui, refs, view, life, frame, shared>>

\* the branch is chosen when the fetch resolves: `json' awaits the body of
\* the switched model, `error' the body of the error
selectModel_fetch(r) ==
    LET t == Task("selectModel", "fetch") IN
    /\ BagIn(t, tasks)
    /\ IF r = "reject"
       THEN /\ tasks' = Finish(t, tasks)
            /\ SetState(t.fn, IfMounted("isModelModalVisible" :> FALSE), obs)
       ELSE /\ tasks' = Start(Task(t.fn, IF r = "ok" /\ refs.isMountedRef
                                         THEN "json" ELSE "error"),
                              Finish(t, tasks))
            /\ UNCHANGED <<ui, obs>>
    /\ UNCHANGED <<refs, view, life, frame, shared>>

selectModel_json(d) ==
    \E at \in { "json", "error" } :
        LET t == Task("selectModel", at) IN
        /\ BagIn(t, tasks)
        /\ tasks' = Finish(t, tasks)
        /\ SetState(t.fn,
                    IF at = "json" /\ d.parsed
                    THEN "currentModel" :> d.current_model
                         @@ IfMounted("isModelModalVisible" :> FALSE)
                    ELSE IfMounted("isModelModalVisible" :> FALSE), obs)
        /\ UNCHANGED <<refs, view, life, frame, shared>>

ScreenIdle ==
    /\ index = <<>>
    /\ Idle
    /\ oracle = "any"
    /\ other = NoFrame
    /\ turn = "A"
    /\ interleaved = FALSE
    /\ first = NoFirst

InitConn == ScreenIdle /\ ScreenConstructed

NextConn ==
    \/ Mount
    \/ Unmount
    \/ Render
    \/ handleRetryConnection
    \/ \E r \in FetchOutcomes : checkServerConnection_fetch(r)
    \/ \E d \in StatusBodies : checkServerConnection_json(d)
    \/ \E r \in FetchOutcomes : fetchDocuments_fetch(r)
    \/ \E d \in DocumentBodies : fetchDocuments_json(d)
    \/ \E r \in FetchOutcomes : fetchModels_fetch(r)
    \/ \E d \in ModelBodies : fetchModels_json(d)
    \/ openModels
    \/ closeModels
    \/ selectModel
    \/ \E r \in FetchOutcomes : selectModel_fetch(r)
    \/ \E d \in StatusBodies : selectModel_json(d)

SpecConn == InitConn /\ [][NextConn]_vars

\* The pending awaits of checkServerConnection settle: the fetch resolves,
\* fails or is aborted by the 5000 ms timer, and the body of a response that
\* has arrived parses or fails to parse.
SpecConnFair ==
    /\ SpecConn
    /\ WF_vars(\E r \in FetchOutcomes : checkServerConnection_fetch(r))
    /\ WF_vars(\E d \in StatusBodies : checkServerConnection_json(d))

---------------------------------------------------------------------------
(* The client screen: asking a question and uploading a document           *)
(* (handleSubmit, clearInput, uploadDocument and its doUpload).  A question *)
(* is a sequence of characters.  The interval timer of a handleSubmit call  *)
(* is the task "timer" of that call.                                        *)

MaxSubmits == 2
MaxUploads == 1
MaxRefreshes == 1
MaxSeconds == 1
RefreshCount == 3

Whitespace == { " ", "\n" }

RECURSIVE TrimStart(_)
TrimStart(t) ==
    IF t # <<>> /\ Head(t) \in Whitespace THEN TrimStart(Tail(t)) ELSE t

RECURSIVE TrimEnd(_)
TrimEnd(t) ==
    IF t # <<>> /\ t[Len(t)] \in Whitespace
    THEN TrimEnd(SubSeq(t, 1, Len(t) - 1)) ELSE t

\* question.trim()
Trim(t) == TrimEnd(TrimStart(t))

\* !question.trim()
Blank_Empty(t) == t = <<>>

Blank(t) == Trim(t) = <<>>

TypedTexts == { <<" ">>, <<"q">> }

AnswerText == <<"an answer">>
Sorry == <<"Sorry, could not get an answer.">>
Unexpected == <<"An unexpected error occurred. Please try again.">>
TimedOut == <<"Request timed out after 3 minutes.">>
Failed(message) == <<"Request failed: ">> \o message
NetworkMessage == <<"Network request failed">>
ParseMessage == <<"JSON Parse error">>
StatusMessage == <<"Server responded with status">>
ServerError == <<"no documents">>

AskOutcomes == FetchOutcomes \cup { "abort" }
AnswerBodies ==
    { [parsed |-> p, answer |-> <<>>, source |-> NullSource, page |-> NullPage] :
      p \in BOOLEAN }
    \cup { [parsed |-> TRUE, answer |-> AnswerText, source |-> s, page |-> g] :
             s \in { NullSource, DocName }, g \in { NullPage, 1 } }
ErrorBodies ==
    { [parsed |-> FALSE, error |-> <<>>] }
    \cup { [parsed |-> TRUE, error |-> e] : e \in { <<>>, ServerError } }
PickerOutcomes == { "picked", "canceled" }

\* the message that the catch block of handleSubmit shows
ErrorMessage(kind, message) ==
    IF kind = "abort" THEN TimedOut
    ELSE IF message # <<>> THEN Failed(message)
    ELSE Unexpected

\* setLoading(true) ... setProcessingTime(0) of a starting submission
SubmitStarted ==
    "loading" :> TRUE @@ "answer" :> <<>> @@ "source" :> NullSource
    @@ "page" :> NullPage @@ "processingTime" :> 0

\* the finally block of handleSubmit
SubmitFinally == "loading" :> FALSE @@ "processingTime" :> 0

\* handleSubmit called from the last render, up to its first await
handleSubmit ==
    /\ life = "mounted"
    /\ obs.calls < MaxSubmits
    /\ IF Blank(view.question)
       THEN /\ obs' = [obs EXCEPT !.calls = @ + 1]
            /\ UNCHANGED <<ui, tasks>>
       ELSE /\ SetState("handleSubmit", IfMounted(SubmitStarted),
                        [obs EXCEPT !.calls = @ + 1, !.submits = @ + 1])
            /\ tasks' = Start(Task("handleSubmit", "timer"),
                              Start(Task("handleSubmit", "fetch"), tasks))
    /\ UNCHANGED <<refs, view, life, frame, shared>>

\* the submit button: disabled={!question.trim() || loading}, behind a
\* modal while one is shown
pressSubmit ==
    /\ ~Blank(view.question)
    /\ ~view.loading
    /\ MainScreen
    /\ handleSubmit

\* the interval callback
tick(s) ==
    /\ BagIn(Task("handleSubmit", "timer"), tasks)
    /\ SetState("handleSubmit", IfMounted("processingTime" :> s), obs)
    /\ UNCHANGED <<refs, view, tasks, life, frame, shared>>

\* a handleSubmit call ends: catch block if msg is not empty, then finally
SubmitEnds(t, upd) ==
    /\ tasks' = Finish(Task("handleSubmit", "timer"), Finish(t, tasks))
    /\ SetState("handleSubmit", IfMounted(upd @@ SubmitFinally),
                [obs EXCEPT !.done = @ + 1])

handleSubmit_fetch(r) ==
    LET t == Task("handleSubmit", "fetch") IN
    /\ BagIn(t, tasks)
    /\ CASE r = "ok" ->
              /\ tasks' = Start(Task(t.fn, "json"), Finish(t, tasks))
              /\ UNCHANGED <<ui, obs>>
         [] r = "notok" ->
              /\ tasks' = Start(Task(t.fn, "error"), Finish(t, tasks))
              /\ UNCHANGED <<ui, obs>>
         [] r \in { "reject", "abort" } ->
              SubmitEnds(t, "answer" :> ErrorMessage(r, NetworkMessage))
    /\ UNCHANGED <<refs, view, life, frame, shared>>

handleSubmit_json(d) ==
    LET t == Task("handleSubmit", "json") IN
    /\ BagIn(t, tasks)
    /\ SubmitEnds(t, IF ~d.parsed
                     THEN "answer" :> ErrorMessage("reject", ParseMessage)
                     ELSE IF d.answer # <<>>
                     THEN "answer" :> d.answer @@ "source" :> d.source
                          @@ "page" :> d.page
                     ELSE "answer" :> Sorry)
    /\ UNCHANGED <<refs, view, life, frame, shared>>

handleSubmit_error(d) ==
    LET t == Task("handleSubmit", "error") IN
    /\ BagIn(t, tasks)
    /\ SubmitEnds(t, "answer" :> ErrorMessage("reject",
                        IF ~d.parsed THEN ParseMessage
                        ELSE IF d.error # <<>> THEN d.error
                        ELSE StatusMessage))
    /\ UNCHANGED <<refs, view, life, frame, shared>>

clearInput ==
    /\ life = "mounted"
    /\ Len(view.question) > 0
    /\ MainScreen
    /\ SetState("clearInput",
                "question" :> <<>> @@ "answer" :> <<>>
                @@ "source" :> NullSource @@ "page" :> NullPage, obs)
    /\ UNCHANGED <<refs, view, tasks, life, frame, shared>>

onChangeText(text) ==
    /\ life = "mounted"
    /\ MainScreen
    /\ SetState("onChangeText", "question" :> text, obs)
    /\ UNCHANGED <<refs, view, tasks, life, frame, shared>>

openDocuments ==
    /\ life = "mounted"
    /\ MainScreen
    /\ SetState("openDocuments", "isDocumentModalVisible" :> TRUE, obs)
    /\ UNCHANGED <<refs, view, tasks, life, frame, shared>>

\* onRequestClose; the Close button does the same while loading is false
closeDocuments ==
    /\ life = "mounted"
    /\ view.isDocumentModalVisible
    /\ SetState("closeDocuments", "isDocumentModalVisible" :> FALSE, obs)
    /\ UNCHANGED <<refs, view, tasks, life, frame, shared>>

\* the refresh button of the document modal: disabled={loading}
refreshDocuments ==
    /\ life = "mounted"
    /\ view.isDocumentModalVisible
    /\ ~view.loading
    /\ obs.refreshes < MaxRefreshes
    /\ tasks' = Start(Task("fetchDocuments", "fetch"), tasks)
    /\ obs' = [obs EXCEPT !.refreshes = @ + 1]
    /\ UNCHANGED <<ui, refs, view, life, frame, shared>>

\* the Upload button of the document modal: disabled={loading}
uploadDocument ==
    /\ life = "mounted"
    /\ view.isDocumentModalVisible
    /\ ~view.loading
    /\ obs.uploads < MaxUploads
    /\ tasks' = Start(Task("uploadDocument", "picker"), tasks)
    /\ obs' = [obs EXCEPT !.uploads = @ + 1]
    /\ UNCHANGED <<ui, refs, view, life, frame, shared>>

\* the document picker settles; doUpload runs up to its fetch
uploadDocument_picker(r) ==
    LET t == Task("uploadDocument", "picker") IN
    /\ BagIn(t, tasks)
    /\ IF r = "picked"
       THEN /\ tasks' = Start(Task("doUpload", "fetch"), Finish(t, tasks))
            /\ SetState("doUpload", IfMounted("loading" :> TRUE), obs)
       ELSE /\ tasks' = Finish(t, tasks)
            /\ UNCHANGED <<ui, obs>>
    /\ UNCHANGED <<refs, view, life, frame, shared>>

Round(at, i) == [fn |-> "doUpload", at |-> at, n |-> i]

\* the finally block of doUpload
UploadFinally == IfMounted("loading" :> FALSE)

doUpload_fetch(r) ==
    LET t == Task("doUpload", "fetch") IN
    /\ BagIn(t, tasks)
    /\ IF r = "reject"
       THEN /\ tasks' = Finish(t, tasks)
            /\ SetState(t.fn, UploadFinally, obs)
       ELSE /\ tasks' = Start(Task(t.fn, IF r = "ok" /\ refs.isMountedRef
                                         THEN "json" ELSE "error"),
                              Finish(t, tasks))
            /\ UNCHANGED <<ui, obs>>
    /\ UNCHANGED <<refs, view, life, frame, shared>>

doUpload_json(parsed) ==
    LET t == Task("doUpload", "json") IN
    /\ BagIn(t, tasks)
    /\ IF parsed
       THEN /\ tasks' = Start(Round("sleep", 0), Finish(t, tasks))
            /\ UNCHANGED <<ui, obs>>
       ELSE /\ tasks' = Finish(t, tasks)
            /\ SetState(t.fn, UploadFinally, obs)
    /\ UNCHANGED <<refs, view, life, frame, shared>>

\* the body or the text of a failed upload has been read
doUpload_error ==
    LET t == Task("doUpload", "error") IN
    /\ BagIn(t, tasks)
    /\ tasks' = Finish(t, tasks)
    /\ SetState(t.fn, UploadFinally, obs)
    /\ UNCHANGED <<refs, view, life, frame, shared>>

\* a delay of doUpload elapses and fetchDocuments is called
doUpload_sleep ==
    \E i \in 0..(RefreshCount - 1) :
        /\ BagIn(Round("sleep", i), tasks)
        /\ tasks' = Start(Round("refresh", i), Finish(Round("sleep", i), tasks))
        /\ UNCHANGED <<ui, refs, view, life, obs, frame, shared>>

\* an awaited fetchDocuments of doUpload returns after round i, having
\* called the setters of upd
RefreshReturns(t, i, upd) ==
    IF i + 1 < RefreshCount
    THEN /\ tasks' = Start(Round("sleep", i + 1), Finish(t, tasks))
         /\ SetState("fetchDocuments", upd, obs)
    ELSE /\ tasks' = Finish(t, tasks)
         /\ SetState("fetchDocuments", upd @@ UploadFinally, obs)

doUpload_refresh_fetch(r) ==
    \E i \in 0..(RefreshCount - 1) :
        LET t == Round("refresh", i) IN
        /\ BagIn(t, tasks)
        /\ IF r = "ok" /\ refs.isMountedRef
           THEN /\ tasks' = Start(Round("refresh_json", i), Finish(t, tasks))
                /\ UNCHANGED <<ui, obs>>
           ELSE RefreshReturns(t, i, NoUpdate)
        /\ UNCHANGED <<refs, view, life, frame, shared>>

doUpload_refresh_json(d) ==
    \E i \in 0..(RefreshCount - 1) :
        LET t == Round("refresh_json", i) IN
        /\ BagIn(t, tasks)
        /\ RefreshReturns(t, i, IF d.parsed THEN "documents" :> d.documents
                                ELSE NoUpdate)
        /\ UNCHANGED <<refs, view, life, frame, shared>>

\* the screen once the server check and the two fetches have succeeded
Connected ==
    /\ ui = [InitialState EXCEPT !.serverStatus = "connected",
                                 !.documents = <<DocName>>,
                                 !.availableModels = <<ModelName>>,
                                 !.currentModel = ModelName]
    /\ refs = [InitialRefs EXCEPT !.hasCheckedServerRef = TRUE,
                                  !.hasFetchedRef = TRUE]
    /\ view = Rendered(ui)
    /\ tasks = EmptyBag
    /\ life = "mounted"
    /\ obs = [NoObs EXCEPT !.mountChecks = 1, !.effectFetches = 1]

InitAsk == ScreenIdle /\ Connected

SubmitSteps ==
    \/ Unmount
    \/ Render
    \/ \E s \in 1..MaxSeconds : tick(s)
    \/ \E r \in AskOutcomes : handleSubmit_fetch(r)
    \/ \E d \in AnswerBodies : handleSubmit_json(d)
    \/ \E d \in ErrorBodies : handleSubmit_error(d)
    \/ clearInput
    \/ \E text \in TypedTexts : onChangeText(text)

UploadSteps ==
    \/ openDocuments
    \/ refreshDocuments
    \/ \E r \in FetchOutcomes : fetchDocuments_fetch(r)
    \/ \E d \in DocumentBodies : fetchDocuments_json(d)
    \/ closeDocuments
    \/ uploadDocument
    \/ \E r \in PickerOutcomes : uploadDocument_picker(r)
    \/ \E r \in FetchOutcomes : doUpload_fetch(r)
    \/ \E parsed \in BOOLEAN : doUpload_json(parsed)
    \/ doUpload_error
    \/ doUpload_sleep
    \/ \E r \in FetchOutcomes : doUpload_refresh_fetch(r)
    \/ \E d \in DocumentBodies : doUpload_refresh_json(d)

NextAsk == pressSubmit \/ SubmitSteps \/ UploadSteps

SpecAsk == InitAsk /\ [][NextAsk]_vars

\* handleSubmit on its own, called whatever the submit button shows
NextSubmit == handleSubmit \/ SubmitSteps

SpecSubmit == InitAsk /\ [][NextSubmit]_vars

\* The pending awaits of handleSubmit settle: the fetch resolves, fails or
\* is aborted by the 180000 ms timer, and the body of a response that has
\* arrived parses or fails to parse.
SpecSubmitFair ==
    /\ SpecSubmit
    /\ WF_vars(\E r \in AskOutcomes : handleSubmit_fetch(r))
    /\ WF_vars(\E d \in AnswerBodies : handleSubmit_json(d))
    /\ WF_vars(\E d \in ErrorBodies : handleSubmit_error(d))

---------------------------------------------------------------------------
(* The screen as src/unnamed/part_000 has it.  handleSubmit keeps the       *)
(* interval it starts in the one ref timerIntervalRef, its finally block    *)
(* clears the interval the ref holds at that moment, and the cleanup of the *)
(* mount effect does the same.  The interval started by the i-th            *)
(* submission is the task "timer" numbered i.                               *)

Interval(i) == [fn |-> "handleSubmit", at |-> "timer", n |-> i]

\* if (timerIntervalRef.current) clearInterval(timerIntervalRef.current)
ClearHeld(bag) ==
    IF refs.timerIntervalRef # 0
    THEN Finish(Interval(refs.timerIntervalRef), bag)
    ELSE bag

\* handleSubmit of part_000, up to its first await
handleSubmitRef ==
    /\ life = "mounted"
    /\ obs.calls < MaxSubmits
    /\ IF Blank(view.question)
       THEN /\ obs' = [obs EXCEPT !.calls = @ + 1]
            /\ UNCHANGED <<ui, tasks, refs>>
       ELSE /\ SetState("handleSubmit", IfMounted(SubmitStarted),
                        [obs EXCEPT !.calls = @ + 1, !.submits = @ + 1])
            /\ tasks' = Start(Interval(obs.submits + 1),
                              Start(Task("handleSubmit", "fetch"), tasks))
            /\ refs' = [refs EXCEPT !.timerIntervalRef = obs.submits + 1]
    /\ UNCHANGED <<view, life, frame, shared>>

\* the callback of the interval started by the i-th submission
tickRef(i, s) ==
    /\ BagIn(Interval(i), tasks)
    /\ SetState("handleSubmit", IfMounted("processingTime" :> s), obs)
    /\ UNCHANGED <<refs, view, tasks, life, frame, shared>>

\* a handleSubmit call of part_000 ends: catch block, then finally
SubmitEndsRef(t, upd) ==
    /\ tasks' = ClearHeld(Finish(t, tasks))
    /\ refs' = [refs EXCEPT !.timerIntervalRef = 0]
    /\ SetState("handleSubmit", IfMounted(upd @@ SubmitFinally),
                [obs EXCEPT !.done = @ + 1])

handleSubmitRef_fetch(r) ==
    LET t == Task("handleSubmit", "fetch") IN
    /\ BagIn(t, tasks)
    /\ CASE r = "ok" ->
              /\ tasks' = Start(Task(t.fn, "json"), Finish(t, tasks))
              /\ UNCHANGED <<ui, obs, refs>>
         [] r = "notok" ->
              /\ tasks' = Start(Task(t.fn, "error"), Finish(t, tasks))
              /\ UNCHANGED <<ui, obs, refs>>
         [] r \in { "reject", "abort" } ->
              SubmitEndsRef(t, "answer" :> ErrorMessage(r, NetworkMessage))
    /\ UNCHANGED <<view, life, frame, shared>>

handleSubmitRef_json(d) ==
    LET t == Task("handleSubmit", "json") IN
    /\ BagIn(t, tasks)
    /\ SubmitEndsRef(t, IF ~d.parsed
                        THEN "answer" :> ErrorMessage("reject", ParseMessage)
                        ELSE IF d.answer # <<>>
                        THEN "answer" :> d.answer @@ "source" :> d.source
                             @@ "page" :> d.page
                        ELSE "answer" :> Sorry)
    /\ UNCHANGED <<view, life, frame, shared>>

handleSubmitRef_error(d) ==
    LET t == Task("handleSubmit", "error") IN
    /\ BagIn(t, tasks)
    /\ SubmitEndsRef(t, "answer" :> ErrorMessage("reject",
                           IF ~d.parsed THEN ParseMessage
                           ELSE IF d.error # <<>> THEN d.error
                           ELSE StatusMessage))
    /\ UNCHANGED <<view, life, frame, shared>>

\* the cleanup of the mount effect of part_000
UnmountRef ==
    /\ life = "mounted"
    /\ life' = "unmounted"
    /\ refs' = [refs EXCEPT !.isMountedRef = FALSE]
    /\ tasks' = ClearHeld(tasks)
    /\ UNCHANGED <<ui, view, obs, frame, shared>>

NextSubmitRef ==
    \/ handleSubmitRef
    \/ UnmountRef
    \/ Render
    \/ \E i \in 1..MaxSubmits, s \in 1..MaxSeconds : tickRef(i, s)
    \/ \E r \in AskOutcomes : handleSubmitRef_fetch(r)
    \/ \E d \in AnswerBodies : handleSubmitRef_json(d)
    \/ \E d \in ErrorBodies : handleSubmitRef_error(d)
    \/ clearInput
    \/ \E text \in TypedTexts : onChangeText(text)

SpecSubmitRef == InitAsk /\ [][NextSubmitRef]_vars

\* the pending awaits of handleSubmit settle, as in SpecSubmitFair
SpecSubmitRefFair ==
    /\ SpecSubmitRef
    /\ WF_vars(\E r \in AskOutcomes : handleSubmitRef_fetch(r))
    /\ WF_vars(\E d \in AnswerBodies : handleSubmitRef_json(d))
    /\ WF_vars(\E d \in ErrorBodies : handleSubmitRef_error(d))

---------------------------------------------------------------------------
(* The client screen: tapping a document of the document modal.  Names and *)
(* questions are sequences of characters.                                   *)

MaxTaps == 2
MaxQuestionLen == 2

\* toLowerCase, character by character
LowerOf(c) == CASE c = "A" -> "a" [] c = "B" -> "b" [] OTHER -> c
ToLowerCase_Identity(t) == t

ToLowerCase(t) == [i \in 1..Len(t) |-> LowerOf(t[i])]

\* s.includes(sub)
Includes(s, sub) ==
    \E i \in 0..(Len(s) - Len(sub)) : SubSeq(s, i + 1, i + Len(sub)) = sub

\* the updater passed to setQuestion by a tap on item
TapQuestion(prevQuestion, item) ==
    IF ~Includes(ToLowerCase(prevQuestion), ToLowerCase(item))
    THEN prevQuestion \o (IF prevQuestion # <<>> THEN <<" ">> ELSE <<>>) \o item
    ELSE prevQuestion

TapDocuments == << <<"A">>, <<"a", "b">> >>
TapCharacters == { "a", "A", "b", " " }
TapQuestions == SeqsOver(TapCharacters, MaxQuestionLen)

\* a document of the list is tapped; the list is shown while loading is
\* false
tapDocument(item) ==
    /\ life = "mounted"
    /\ view.isDocumentModalVisible
    /\ ~view.loading
    /\ item \in Range(view.documents)
    /\ obs.taps < MaxTaps
    /\ SetState("tapDocument",
                "question" :> TapQuestion(ui.question, item)
                @@ "isDocumentModalVisible" :> FALSE,
                [obs EXCEPT !.taps = @ + 1, !.tapped = item])
    /\ UNCHANGED <<refs, view, tasks, life, frame, shared>>

InitTap ==
    /\ ScreenIdle
    /\ \E q \in TapQuestions :
           ui = [InitialState EXCEPT !.serverStatus = "connected",
                                     !.documents = TapDocuments,
                                     !.question = q]
    /\ refs = [InitialRefs EXCEPT !.hasCheckedServerRef = TRUE,
                                  !.hasFetchedRef = TRUE]
    /\ view = Rendered(ui)
    /\ tasks = EmptyBag
    /\ life = "mounted"
    /\ obs = [NoObs EXCEPT !.mountChecks = 1, !.effectFetches = 1]

NextTap ==
    \/ openDocuments
    \/ closeDocuments
    \/ refreshDocuments
    \/ \E r \in FetchOutcomes : fetchDocuments_fetch(r)
    \/ \E d \in DocumentBodies : fetchDocuments_json(d)
    \/ \E item \in Range(TapDocuments) \cup { DocName } : tapDocument(item)
    \/ Render
    \/ Unmount

SpecTap == InitTap /\ [][NextTap]_vars

---------------------------------------------------------------------------
(* Properties *)

NoDupContent(s) == \A i, j \in DOMAIN s : i # j => s[i].content # s[j].content

AllMatch(s, src, p) == \A i \in DOMAIN s : Matches(s[i], src, p)

\* a retrieve_context call has returned
Returned == pc = "done"

\* the fast path returned the extractor's results
FastPathTaken == Returned /\ ext.ret = "fast" /\ ext.results # <<>>

\* C1 as stated: the sequence returned by retrieve_context has length at
\* most k, on the fast path, after the fallback merges and when the error
\* sentinel is returned.
C1_Original == Returned => Len(result) <= k

\* C1 amended: the sequence returned by retrieve_context has length at most
\* k on the fast path and after the fallback merges; the error sentinel is
\* a sequence of one entry whatever k is, so the length exceeds k only when
\* k = 0 and the sentinel is returned.
C1_LengthAtMostK ==
    Returned => \/ Len(result) <= k
                \/ (k = 0 /\ result = ErrorResult /\ "fanout" \in raisedIn)

\* C1 witness: the cap cut a longer deduplicated accumulator down to k
C1_Witness ==
    /\ Returned
    /\ raisedIn = {}
    /\ k >= 1
    /\ Len(result) = k
    /\ Len(MergeNew(<<>>, acc)) > k

\* C2: no two entries of the returned sequence have identical content,
\* whichever path produced them.
C2_NoDuplicateContent == Returned => NoDupContent(result)

\* C2 witness: two chunks are returned from an accumulator that held the
\* same content more than once
C2_Witness ==
    /\ Returned
    /\ Len(result) = 2
    /\ Len(acc) > Cardinality(Contents(acc))

\* C3 as stated: a search that raises during fan-out, source narrowing or
\* page narrowing makes retrieve_context return exactly the sentinel chunk.
C3_Original ==
    (Returned /\ raisedIn \cap { "fanout", "source", "page" } # {})
        => (result = << Sentinel >> /\ outcome = "returned")

\* C3 amended: a search that raises during fan-out makes retrieve_context
\* return exactly the sentinel chunk; a search that raises in the
\* source-fallback query or inside the Page-Scoped Extractor is caught
\* where it is raised and the call returns the deduplicated, capped
\* accumulator; in no case does retrieve_context raise.
C3_SentinelOnTopLevelError ==
    /\ outcome # "raised"
    /\ (Returned /\ "fanout" \in raisedIn)
           => (result = << Sentinel >> /\ outcome = "returned")
    /\ (Returned /\ "fanout" \notin raisedIn /\ ~FastPathTaken)
           => (result = DedupCap(acc, k) /\ outcome = "returned")

\* C3 witness: a fan-out search raised after earlier ones had accumulated chunks
C3_Witness ==
    /\ Returned
    /\ "fanout" \in raisedIn
    /\ acc # <<>>
    /\ result = << Sentinel >>

\* C4 as stated: with a non-empty question the returned sequence is
\* non-empty, for every index content, every k and every pattern of search
\* failures.
C4_NonEmptyResult == (Returned /\ question # <<>>) => result # <<>>

\* no chunk of the index matches the filters of the running call
NoFilterMatch ==
    ~ \E c \in Range(index) :
          /\ source = NoSource \/ c.source = source
          /\ page = NoPage \/ c.page = page

\* C5 as stated: for a non-empty question and an index that contains no
\* matching chunk, retrieve_context returns a sequence of length at most 1
\* whose only possible entry is the sentinel, and it does not raise.
C5_NothingFound ==
    (Returned /\ question # <<>> /\ NoFilterMatch)
        => (result \in { <<>>, << Sentinel >> } /\ outcome = "returned")

\* C6 as stated: with an empty question retrieve_context returns the empty
\* sequence immediately: no Index.search call, no sentinel, no error,
\* whatever k, source and page are.
C6_EmptyQuestion ==
    (Returned /\ question = <<>>)
        => /\ result = <<>>
           /\ calls = <<>>
           /\ raisedIn = {}
           /\ outcome = "returned"

\* the index of the spec's example, in either rank order
ExampleIndex ==
    Range(index) = { Chunk(1, "Alpha", XPdf, 1), Chunk(2, "Beta", XPdf, 2) }

\* C7 as stated: when source and page are both supplied and some chunk of
\* the index has that source and page, every returned chunk matches both;
\* for the example index and source = x.pdf, page = 2 the output is [Beta].
C7_Original ==
    (Returned /\ question # <<>> /\ FastPathApplies(source, argPage)
       /\ \E c \in Range(index) : Matches(c, source, argPage))
        => /\ AllMatch(result, source, argPage)
           /\ (ExampleIndex /\ source = XPdf /\ argPage = 2)
                  => [i \in DOMAIN result |-> result[i].content] = << "Beta" >>

\* C7 amended: when source and page are both supplied and the Page-Scoped
\* Extractor run of the fast path returns at least one chunk, every returned
\* chunk matches both fields; for the example index and source = x.pdf,
\* page = 2, k = 3 the output is then exactly [Beta].
C7_FastPathMatchesBoth ==
    (FastPathTaken /\ question # <<>> /\ FastPathApplies(source, argPage))
        => /\ k >= 1 => result # <<>>
           /\ AllMatch(result, source, argPage)
           /\ (ExampleIndex /\ source = XPdf /\ argPage = 2 /\ k = 3)
                  => [i \in DOMAIN result |-> result[i].content] = << "Beta" >>

\* C7 witness: the example index, source = x.pdf, page = 2, k = 3, output [Beta]
C7_Witness ==
    /\ FastPathTaken
    /\ ExampleIndex
    /\ source = XPdf
    /\ argPage = 2
    /\ k = 3
    /\ [i \in DOMAIN result |-> result[i].content] = << "Beta" >>

\* a chunk that matches the active filters of the running call
FilterMatch(c) == c.page = page /\ (source = NoSource \/ c.source = source)

\* C8 as stated: with a page filter active and a chunk with that page in the
\* index, no non-matching chunk is returned while a matching chunk of the
\* index is left out.
C8_PagePreference ==
    (Returned /\ question # <<>> /\ page # NoPage /\ raisedIn = {})
        => \A i \in DOMAIN result :
             ~FilterMatch(result[i])
                 => \A c \in Range(index) :
                      FilterMatch(c) => c.content \in Contents(result)

\* the number N of the leftmost `page N` / `page number N` in q, if any
StrictRefAt(q, i, n) ==
    /\ Lower(q[i]) = "page"
    /\ \/ (i + 1 <= Len(q) /\ q[i + 1] = ToStr(n))
       \/ (i + 2 <= Len(q) /\ Lower(q[i + 1]) = "number" /\ q[i + 2] = ToStr(n))

FirstPageRef(q, n) ==
    \E i \in DOMAIN q :
        /\ StrictRefAt(q, i, n)
        /\ \A j \in 1..(i - 1), m \in { 1, 2 } : ~StrictRefAt(q, j, m)

\* the call is past page detection
PastDetection == pc \in { "fanout", "srcfb", "page", "dedup" }
                 \/ (pc = "ext" /\ ext.ret = "page")
                 \/ (Returned /\ ~FastPathTaken)

\* C9: for a question containing `page N` and no explicit page, the detected
\* page is N and page narrowing works on it as on an explicit page (after
\* narrowing every accumulated chunk is on page N unless the extractor was
\* called); an explicit page is never replaced by a detected one.
C9_PageDetection ==
    /\ argPage # NoPage => page = argPage
    /\ \A n \in { 1, 2 } :
         (PastDetection /\ argPage = NoPage /\ FirstPageRef(question, n))
             => page = n
    /\ (pc = "dedup" /\ page # NoPage)
           => (ByPage(acc, page) = acc \/ ext.ret = "page")

\* C9 witness: `paage 1 page number 2` without explicit page narrowed to page 2
C9_Witness ==
    /\ pc = "dedup"
    /\ argPage = NoPage
    /\ question = <<"paage", "1", "page", "number", "2">>
    /\ page = 2
    /\ acc # <<>>
    /\ ByPage(acc, 2) = acc
    /\ ext.ret = "none"

\* C10: every chunk the Page-Scoped Extractor accumulates or returns has
\* metadata.source = source and metadata.page = page, and no two returned
\* chunks have the same content, whichever strategy or the final scan added
\* them and whoever called the extractor.
C10_ExtractorOutput ==
    /\ AllMatch(ext.results, ext.src, ext.page)
    /\ pc = "extdone" =>
          /\ NoDupContent(result)
          /\ AllMatch(result, ext.src, ext.page)
          /\ Contents(result) = Contents(ext.results)
    /\ FastPathTaken =>
          /\ NoDupContent(result)
          /\ AllMatch(result, ext.src, ext.page)

\* C10 witness: on the fast path the cascade found the same chunk twice and
\* the final scan added a second text; the two texts are returned once each
C10_Witness ==
    /\ FastPathTaken
    /\ FinalScan \in Range(calls)
    /\ Len(ext.results) = 3
    /\ Len(result) = 2
    /\ result = ExtOutput(ext)

\* C11: in the Page-Scoped Extractor no search is issued once the accumulated
\* matching results have reached min_results; in particular, when the first
\* strategy alone yields min_results chunks, Index.search is called once.
C11_CascadeEarlyExit ==
    [][ (pc = "ext" /\ Len(ext.results) >= ext.min) => calls' = calls ]_vars

\* C11 witness: the first strategy alone yielded min_results = 2 chunks and the
\* extractor returned after that one search
C11_Witness ==
    /\ pc = "extdone"
    /\ ext.min = 2
    /\ Len(result) = 2
    /\ calls = << Strategy(1, ext.src, ext.page) >>

\* the searches of a complete run of the extractor: the strategies that name
\* the document do not search when no source is given
FullRunSearches(src) == IF src = NoSource THEN 3 ELSE CascadeLength + 1

\* a step of the extractor in which an exception is raised: the first
\* search of the run to fail, or a strategy that fails on a missing source
ExtErrorStep ==
    /\ pc = "ext"
    /\ \/ (ext.ret \notin raisedIn /\ ext.ret \in raisedIn')
       \/ (CascadeContinues(ext) /\ StrategyRaises(ext.strat, ext.src)
              /\ ext' # ext)

\* C12: the Page-Scoped Extractor never raises: a failing search is
\* swallowed, what was accumulated is kept and the next step follows (short
\* of min_results every strategy and the final scan are issued, whichever of
\* them failed), and when no search returns a chunk, as when every search
\* fails, the result is empty.
C12_ExtractorSwallowsErrors ==
    /\ [](pc \in { "ext", "extdone" } => outcome # "raised")
    /\ []((pc = "extdone" /\ ~IndexFalsy /\ Len(ext.results) < ext.min)
             => Len(calls) = FullRunSearches(ext.src))
    /\ []((pc = "extdone" /\ ~surfaced) => result = <<>>)
    /\ [][ ExtErrorStep
               => /\ pc' = "ext"
                  /\ ext'.results = ext.results
                  /\ ext'.strat = ext.strat + 1
                  /\ UNCHANGED <<result, outcome>> ]_vars

\* C12 witness: a search of the extractor failed, all six searches were
\* issued and the matches of the others were kept
C12_Witness ==
    /\ pc = "extdone"
    /\ "direct" \in raisedIn
    /\ Len(calls) = CascadeLength + 1
    /\ result # <<>>
    /\ Len(ext.results) < ext.min

\* C13: with a deterministic Index.search and an unchanged index, a call of
\* retrieve_context with the arguments of an earlier call returns the same
\* sequence as that earlier call, whatever calls ran in between, and a
\* returned call leaves nothing behind in the retriever.
C13_RepeatedCallSameResult ==
    /\ (pc = "done" /\ first.set /\ Args = first.args) => result = first.result
    /\ pc = "idle" => (acc = <<>> /\ queries = <<>> /\ ext = NoExt /\ page = NoPage)

\* a second call with the arguments of the first has gone through fan-out and
\* narrowing and ends with the same two chunks
C13_Witness ==
    /\ pc = "done"
    /\ first.set
    /\ Args = first.args
    /\ oracle = "exact"
    /\ Len(calls) >= 2
    /\ Len(result) = 2
    /\ result = first.result

\* C14: with a deterministic Index.search and an unchanged index, a
\* retrieve_context call whose steps were interleaved with the steps of
\* another call returns the same sequence as the same call run alone: the
\* calls share no mutable state.
C14_ConcurrentCallsIsolated ==
    (pc = "done" /\ turn = "A" /\ interleaved /\ first.set /\ Args = first.args)
        => result = first.result

\* caller A's call was suspended in flight while caller B's call, which has
\* searched and accumulated chunks of its own, was in flight too, and A ends
\* with the two chunks it returned when run alone
C14_Witness ==
    /\ pc = "done"
    /\ turn = "A"
    /\ interleaved
    /\ first.set
    /\ Args = first.args
    /\ Len(calls) >= 2
    /\ Len(result) = 2
    /\ result = first.result
    /\ other.pc \notin { "idle", "done" }
    /\ other.acc # <<>>
    /\ other.acc # acc

\* every chunk a call holds is a chunk of the index, exactly as stored
ChunksFromIndex ==
    (Range(acc) \cup Range(ext.results) \cup (Range(result) \ { Sentinel }))
        \subseteq Range(index)

\* C15: no step of retrieve_context or of the Page-Scoped Extractor changes
\* the index, and no step modifies a chunk: what a call accumulates and
\* returns are chunks of the index, field for field.
C15_IndexReadOnly ==
    [][ index' = index /\ ChunksFromIndex' ]_vars

\* a call that searched at least three times over a full index and narrowed
\* by source and page has returned chunks of that index
C15_Witness ==
    /\ pc = "done"
    /\ Len(index) = MaxIndex
    /\ Len(calls) >= 3
    /\ source # NoSource
    /\ page # NoPage
    /\ result # <<>>
    /\ Range(result) \subseteq Range(index)

\* the i-th search of one run of the Page-Scoped Extractor
ExtractorQuery(i, src, p) ==
    IF i <= CascadeLength THEN Strategy(i, src, p) ELSE FinalScan

\* the searches made so far are those of one run of the extractor, in order
OnlyExtractorSearches ==
    /\ Len(calls) <= CascadeLength + 1
    /\ \A i \in 1..Len(calls) :
         calls[i] = ExtractorQuery(IF i = Len(calls) /\ calls[i] = FinalScan
                                   THEN CascadeLength + 1 ELSE i,
                                   source, argPage)

\* C16: on the filtered fast path, when the extractor returns n >= 1 chunks,
\* retrieve_context returns the first min(k, n) of them in the extractor's
\* order, and the only searches of the call, up to and after that point, are
\* those of the extractor: no fan-out, source-fallback or page-fallback search.
C16_FastPathReturn ==
    [][ /\ FastPathTaken' =>
             /\ Len(result') = Min(k', Len(ExtOutput(ext')))
             /\ \A i \in 1..Len(result') : result'[i] = ExtOutput(ext')[i]
             /\ acc' = <<>>
             /\ OnlyExtractorSearches'
        /\ FastPathTaken => (pc' = "idle" /\ calls' = <<>>) ]_vars

\* the extractor returned two chunks and k = 1 keeps the first of them
C16_Witness ==
    /\ FastPathTaken
    /\ k = 1
    /\ Len(ExtOutput(ext)) = 2
    /\ result = << ExtOutput(ext)[1] >>
    /\ Len(calls) = CascadeLength + 1

\* s is an initial segment of t
IsPrefix(s, t) == Len(s) <= Len(t) /\ \A i \in 1..Len(s) : t[i] = s[i]

OnPage(s, p) == \A c \in Range(s) : c.page = p

\* C17: page narrowing with a known page.  If the accumulator holds a chunk
\* of that page, the step searches nothing, does not invoke the extractor
\* and leaves only chunks of that page, of which the next step returns some
\* and, for k >= 1, at least one.  Otherwise the step invokes the extractor
\* and, when the extractor returns, its results are added after the
\* accumulator's chunks, none of which is dropped.
C17_PageNarrowing ==
    [][ /\ (pc = "page" /\ page # NoPage /\ \E c \in Range(acc) : c.page = page) =>
             /\ pc' = "dedup"
             /\ acc' # <<>>
             /\ OnPage(acc', page)
             /\ Range(acc') = { c \in Range(acc) : c.page = page }
             /\ calls' = calls
             /\ ext' = ext
        /\ (pc = "page" /\ page # NoPage /\ ~ \E c \in Range(acc) : c.page = page) =>
             /\ pc' = "ext"
             /\ ext'.ret = "page"
             /\ acc' = acc
        /\ (pc = "ext" /\ ext.ret = "page" /\ pc' # "ext") =>
             /\ pc' = "dedup"
             /\ IsPrefix(acc, acc')
             /\ Contents(acc') = Contents(acc) \cup Contents(ext.results)
             /\ Range(acc') \subseteq Range(acc) \cup Range(ext.results)
        /\ (pc = "dedup" /\ acc # <<>>) =>
             /\ pc' = "done"
             /\ k >= 1 => result' # <<>>
             /\ Range(result') \subseteq Range(acc) ]_vars

\* a call whose index held chunks of the page and of another page has kept
\* the accumulated chunks of the page, without the extractor, and returned
\* chunks of the page only
C17_Witness ==
    /\ pc = "done"
    /\ page # NoPage
    /\ ext.ret = "none"
    /\ raisedIn = {}
    /\ calls # <<>>
    /\ outcome = "returned"
    /\ result # <<>>
    /\ OnPage(result, page)
    /\ \E c \in Range(index) : c.page # page

\* the number of accumulated chunks of the requested source
SourceCount == Cardinality({ i \in 1..Len(acc) : acc[i].source = source })

\* source narrowing is about to run with a known source
AtSourceNarrowing == pc = "fanout" /\ queries = <<>> /\ source # NoSource

\* source narrowing with the fallback search carrying the result count kk
SourceNarrowingWith(kk) ==
        /\ (AtSourceNarrowing /\ SourceCount >= Min(3, k)) =>
             /\ pc' = "page"
             /\ acc' = SelectSeq(acc, LAMBDA c : c.source = source)
             /\ calls' = calls
        /\ (AtSourceNarrowing /\ SourceCount < Min(3, k)) =>
             /\ pc' = "srcfb"
             /\ acc' = acc
             /\ calls' = calls
        /\ pc = "srcfb" =>
             /\ calls' = Append(calls, [text |-> <<"document">> \o BaseName(source),
                                        k |-> kk])
             /\ pc' = "page"
             /\ \/ acc' = acc
                \/ \E found \in SearchResults(kk) :
                     LET new == { c \in Range(found) : c.source = source }
                     IN  /\ IsPrefix(acc, acc')
                         /\ Range(acc') \subseteq Range(acc) \cup new
                         /\ Contents(acc') =
                                Contents(acc) \cup { c.content : c \in new }
        /\ pc' = "srcfb" => AtSourceNarrowing

\* C18 as stated: source narrowing with a known source.  With at least
\* min(3, k) accumulated chunks of the source, the accumulator becomes
\* exactly those chunks, in order, and the step searches nothing.  With
\* fewer, the step issues exactly one search, "document {base name}" with
\* k = 50, whose chunks of the source are merged into the accumulator, which
\* keeps all its chunks in place.
C18_Original == [][SourceNarrowingWith(50)]_vars

\* C18 amended: as stated, except that the one fallback search,
\* "document {base name}", carries k = 30, and that when it raises the
\* accumulator is left as it is and the call goes on.
C18_SourceNarrowing == [][SourceNarrowingWith(30)]_vars

\* the fallback search has run: the accumulator still starts with a chunk of
\* another source and has gained a chunk of the requested source
C18_Witness ==
    /\ pc = "page"
    /\ source # NoSource
    /\ calls # <<>>
    /\ calls[Len(calls)] = SourceFallbackQuery(source)
    /\ Len(acc) >= 2
    /\ acc[1].source # source
    /\ acc[Len(acc)].source = source

\* the k of each search of a complete run of the extractor, in order
ExtractorKs == << 5, 5, 50, 50, 100, 500 >>

\* the extractor's cascade is over and the final scan has not been decided
CascadeOver == pc = "ext" /\ ext.strat = CascadeLength + 1

\* the matching chunks accumulated so far: the distinct ones among all_docs
Accumulated == ExtOutput(ext)

\* C19 as stated: after the cascade (strategies with k = 5, 5, 50, 50, 100
\* in that order) the extractor issues search("", 500) if and only if it
\* has accumulated fewer than min_results matching chunks, and issues it
\* once; the scan leaves the chunks held before it in place and adds only
\* matching chunks not already present.
C19_FinalScan ==
    [][ /\ (pc = "ext" /\ ext.strat <= CascadeLength /\ calls' # calls) =>
             /\ calls'[Len(calls')].k = ExtractorKs[ext.strat]
             /\ ext'.strat = ext.strat + 1
        /\ (CascadeOver /\ Len(Accumulated) < ext.min) =>
             /\ calls' = Append(calls, [text |-> <<>>, k |-> 500])
             /\ pc' = "ext"
             /\ ext'.strat = CascadeLength + 2
             /\ IsPrefix(ext.results, ext'.results)
             /\ \A i \in (Len(ext.results) + 1)..Len(ext'.results) :
                  /\ ext'.results[i].source = ext.src
                  /\ ext'.results[i].page = ext.page
                  /\ \A j \in 1..(i - 1) :
                       ext'.results[j].content # ext'.results[i].content
        /\ (CascadeOver /\ Len(Accumulated) >= ext.min) =>
             /\ calls' = calls
             /\ pc' # "ext"
        /\ (pc = "ext" /\ ext.strat > CascadeLength + 1) =>
             /\ calls' = calls
             /\ pc' # "ext"
        /\ (pc = "ext" /\ Len(calls') > Len(calls)
                /\ calls'[Len(calls')].k = 500) =>
             /\ CascadeOver
             /\ Len(Accumulated) < ext.min ]_vars

\* the positions of the accumulator that hold the first occurrence of a content
FirstOccurrences ==
    { i \in 1..Len(acc) : \A j \in 1..(i - 1) : acc[j].content # acc[i].content }

\* the n-th first occurrence, counted from the front of the accumulator
NthFirst(n) ==
    CHOOSE i \in FirstOccurrences :
        Cardinality({ j \in FirstOccurrences : j < i }) = n - 1

\* C20: the deduplicate-and-cap step returns, of the d first occurrences of
\* a content in the accumulator taken in accumulator order, the first
\* min(k, d).
C20_DedupAndCap ==
    [][ pc = "dedup" =>
          /\ pc' = "done"
          /\ Len(result') = Min(k, Cardinality(FirstOccurrences))
          /\ \A n \in 1..Len(result') : result'[n] = acc[NthFirst(n)] ]_vars

\* the accumulator held a repeated content between two first occurrences and
\* more distinct contents than k: the result is the first two of them
C20_Witness ==
    /\ pc = "done"
    /\ outcome = "returned"
    /\ k = 2
    /\ Len(acc) = MaxAcc
    /\ acc[2].content = acc[1].content
    /\ acc[2] # acc[1]
    /\ Cardinality(Contents(acc)) = 3
    /\ result = << acc[1], acc[NthFirst(2)] >>
    /\ NthFirst(2) > 2

\* a call of retrieve_context or of the extractor is running
Running == pc \notin { "idle", "done", "extdone" }

\* the steps an extractor run has left at most: its searches and its return
ExtStepsLeft == CascadeLength + 3 - ext.strat

\* an upper bound on the steps the running call has left
StepsLeft ==
    CASE pc = "ext" /\ ext.ret = "fast" -> 20 + ExtStepsLeft
      [] pc = "detect" -> 20
      [] pc = "fanout" -> 13 + Len(queries)
      [] pc = "srcfb" -> 12
      [] pc = "page" -> 11
      [] pc = "ext" /\ ext.ret = "page" -> 2 + ExtStepsLeft
      [] pc = "ext" -> ExtStepsLeft
      [] pc = "dedup" -> 1
      [] OTHER -> 0

\* a running call has a step to take; the last step has no precondition
CanStep ==
    CASE pc = "ext" -> ENABLED (ExtStrategy \/ ExtBreak \/ ExtFinalScan \/ ExtReturn)
      [] pc = "detect" -> ENABLED Detect
      [] pc = "fanout" -> ENABLED (FanoutSearch \/ SourceNarrow)
      [] pc = "srcfb" -> ENABLED SourceFallback
      [] pc = "page" -> ENABLED PageNarrow
      [] OTHER -> pc = "dedup"

\* the most searches one call can issue: six content queries, the source
\* fallback, and two extractor runs of five strategies and a scan each
MaxSearches == 6 + 1 + 2 * (CascadeLength + 1)

\* C21: a call makes at most 6 fan-out searches, one source-fallback search
\* and two extractor runs of six searches each; every step of a running call
\* brings it strictly nearer to its return (no step is repeated, no retry),
\* a running call can always take a step, and nothing happens once the call
\* has returned except its result being taken.
C21_BoundedSearches ==
    /\ [](Len(calls) <= MaxSearches)
    /\ [](Running => CanStep)
    /\ [][ /\ Running => (StepsLeft' < StepsLeft /\ StepsLeft' >= 0)
           /\ Len(calls') <= Len(calls) + 1
           /\ ~Running => (calls' = calls \/ calls' = <<>>) ]_vars

\* the longest call: the fast path found nothing, six fan-out searches, the
\* source fallback and a second extractor run, nineteen searches in all
C21_Witness ==
    /\ pc = "done"
    /\ outcome = "returned"
    /\ Len(calls) = MaxSearches

---------------------------------------------------------------------------
(* The client screen: claims C22 to C30 *)

\* C22: once the component is unmounted (isMountedRef.current is false) no
\* asynchronous handler calls a React state setter, at whatever point its
\* pending fetch or response.json() promise settles.
C22_NoUpdateAfterUnmount == obs.late = {}

\* C26: at most one /api/system-status check is in flight at any time:
\* checkServerConnection issues no request while a check is in progress,
\* for every sequence of mount and handleRetryConnection events.
C26_SingleCheckInFlight == Pending("checkServerConnection", "fetch") <= 1


\* C27: the mount effect starts the initial server check exactly once, and
\* between two resets of hasFetchedRef (mount or handleRetryConnection) the
\* [serverStatus] effect starts fetchDocuments and fetchModels at most once:
\* it starts them only when hasFetchedRef is false, and sets it.
C27_FetchOncePerReset ==
    /\ [](obs.mountChecks = IF life = "new" THEN 0 ELSE 1)
    /\ [](obs.effectFetches <= 1)
    /\ [][ obs'.effectFetches > obs.effectFetches
           => /\ ~refs.hasFetchedRef
              /\ refs'.hasFetchedRef
              /\ Pending("fetchDocuments", "fetch")' = Pending("fetchDocuments", "fetch") + 1
              /\ Pending("fetchModels", "fetch")' = Pending("fetchModels", "fetch") + 1 ]_vars

\* the effect has fetched once since the last reset and has run again with
\* serverStatus 'connected' without fetching
C27_Witness ==
    /\ obs.effectFetches = 1
    /\ obs.skipped
    /\ refs.hasFetchedRef
    /\ view.serverStatus = "connected"


\* C25: while the component is mounted, a serverStatus of 'checking' is
\* always eventually followed by 'connected' or 'error'.
C25_CheckingEnds ==
    (life = "mounted" /\ ui.serverStatus = "checking")
        ~> (life = "unmounted" \/ ui.serverStatus \in { "connected", "error" })

\* every check has ended on a mounted component, the last one in 'error'
C25_Witness ==
    /\ life = "mounted"
    /\ obs.retries = MaxRetries
    /\ Pending("checkServerConnection", "fetch") = 0
    /\ Pending("checkServerConnection", "json") = 0
    /\ ui.serverStatus = "error"


\* the interval timers of handleSubmit calls that have not been cleared
\* (a timer of App.tsx is numbered 0, one of part_000 by its submission)
RECURSIVE TimersUpTo(_)
TimersUpTo(n) ==
    IF n < 0 THEN 0 ELSE CopiesIn(Interval(n), tasks) + TimersUpTo(n - 1)

LiveTimers == TimersUpTo(MaxSubmits)

\* C24 as stated: every handleSubmit call that passes the blank check
\* eventually ends (success, non-OK response, thrown error or the 180 s
\* abort); while the component is mounted, the call that ends clears the
\* interval timer it started, so that the live timers are those of the
\* pending calls, and sets loading to false and processingTime to 0.
C24_SubmitCompletes ==
    /\ \A n \in 1..MaxSubmits : (obs.submits >= n) ~> (obs.done >= n)
    /\ [](life = "mounted" => LiveTimers = obs.submits - obs.done)
    /\ [][ (obs'.done > obs.done /\ life = "mounted")
           => /\ LiveTimers' = LiveTimers - 1
              /\ ~ui'.loading
              /\ ui'.processingTime = 0 ]_vars

\* C29: a handleSubmit call with an empty or whitespace-only question
\* issues no request, starts no timer and leaves loading, answer, source,
\* page and processingTime unchanged.
C29_BlankSubmitIsNoOp ==
    [][ ( /\ obs'.calls > obs.calls
          /\ \A i \in 1..Len(view.question) : view.question[i] \in Whitespace )
        => /\ tasks' = tasks
           /\ ui' = ui
           /\ obs'.submits = obs.submits ]_vars

\* handleSubmit has been called with a whitespace-only question and nothing
\* else has
C29_Witness ==
    /\ obs.calls = 1
    /\ obs.submits = 0
    /\ view.question = <<" ">>
    /\ tasks = EmptyBag
    /\ ~ui.loading
    /\ ui.answer = <<>>


\* the ask-question requests and the uploads whose fetch is pending
RequestsInFlight ==
    Pending("handleSubmit", "fetch") + Pending("doUpload", "fetch")

\* C23: whenever an ask-question request or an upload is in flight, loading
\* is true, and at most one such request is in flight, for every
\* interleaving of the document picker resolving, a submit being pressed,
\* and either request finishing.
C23_LoadingWhileInFlight ==
    /\ (life = "mounted" /\ RequestsInFlight > 0) => ui.loading
    /\ RequestsInFlight <= 1


\* an attribution is shown
Attributed == ui.source # NullSource \/ ui.page # NullPage

\* C28: source and page are non-null only if the latest request returned OK
\* with an answer: they are reset when a submission starts and by
\* clearInput, so an attribution is never shown with a later answer, with
\* an error message or with no answer.
C28_AttributionOfLatestAnswer == Attributed => ui.answer = AnswerText


\* item occurs in q, whatever the case of the letters
ContainedIgnoringCase(q, item) ==
    \E i \in 0..(Len(q) - Len(item)) :
        \A j \in 1..Len(item) : LowerOf(q[i + j]) = LowerOf(item[j])

\* C30: tapping a document appends its name to the question, after one
\* space when the question is not empty, only if the question does not
\* already contain the name case-insensitively; a second tap on the same
\* document leaves the question as the first left it; every tap closes the
\* document modal.
C30_TapDocument ==
    [][ obs'.taps > obs.taps
        => LET item == obs'.tapped
               q == ui.question
           IN /\ ui'.question =
                    IF ContainedIgnoringCase(q, item) THEN q
                    ELSE IF q = <<>> THEN item
                    ELSE q \o <<" ">> \o item
              /\ ContainedIgnoringCase(ui'.question, item)
              /\ TapQuestion(ui'.question, item) = ui'.question
              /\ ~ui'.isDocumentModalVisible ]_vars

\* "a b" was appended to the question "b" by a first tap and left alone
\* by a second
C30_Witness ==
    /\ obs.taps = 2
    /\ obs.tapped = <<"a", "b">>
    /\ ui.question = <<"b", " ", "a", "b">>
    /\ ~ui.isDocumentModalVisible

=========================================================================
